---- MODULE Spec2Model ----
(***************************************************************************)
(* Credential and secret lifecycle of the Discord/GitHub bridge:           *)
(*   - LifecycleReconciler : POST /webhooks/github  (routes/webhooks.ts)   *)
(*   - MappingStore        : FileUtils              (shared/file-utils)    *)
(*   - CredentialIssuer    : GitHubService.getInstallationClient,          *)
(*                           ConfigService.getInstallationToken            *)
(*   - AccessValidator     : ConfigService.validateRepoAccess              *)
(*   - SecretVault         : SecretStore            (shared/secret-store)  *)
(* Every handler is one action; what the hosting platform answers and what *)
(* a caller sends are drawn from small sets.                               *)
(***************************************************************************)
EXTENDS Integers, Sequences, FiniteSets, TLC

VARIABLES
    installations,        \* data/installations/<id>.yml : id -> GitHubInstallation
    mappings,             \* data/guild_mappings/<guild>.yml : guild -> GuildMapping
    installationClients,  \* per GitHubService instance: installationId -> cached client
    webhookSecret,        \* process.env.GITHUB_WEBHOOK_SECRET ("" when not configured)
    now,                  \* wall clock
    secretFiles,          \* data/guilds/<guild>.json : guild -> GuildSecretsFile
    masterKeyEnv,         \* process.env.CONFIG_MASTER_KEY
    keyFile,              \* data/master_key (<<>> when the file does not exist)
    lastOp,               \* outcome of the last operation, as its caller observes it
    inFlight,             \* async calls in flight, each between two of its awaits
    torn,                 \* files opened for writing whose content is not yet written
    tmpFiles,             \* data/guilds/<guild>.json.tmp : guild -> GuildSecretsFile
    begun,                \* number of calls begun so far
    issueTextWaitMap,     \* userId -> channelId of the users whose next message is awaited
    handling,             \* handleMessage calls that await processFileUpload
    issued,               \* per user: /issue commands taken, messages taken as issue bodies
    uninstalled           \* tenants whose mapping an installation.deleted has removed

storeVars == <<installations, mappings>>
vaultVars == <<secretFiles, masterKeyEnv, keyFile>>
fsVars == <<inFlight, torn, tmpFiles, begun>>
chatVars == <<issueTextWaitMap, handling, issued>>
\* what the operations on the stores and on the vault never change
processVars == <<webhookSecret, chatVars, uninstalled>>
vars == <<installations, mappings, installationClients, webhookSecret, now,
          secretFiles, masterKeyEnv, keyFile, lastOp, inFlight, torn, tmpFiles, begun,
          issueTextWaitMap, handling, issued, uninstalled>>

(***************************************************************************)
(* Bounds of the model                                                     *)
(***************************************************************************)
NumGuilds == 2
MaxClock == 2
DigestLen == 2

Guilds == 1..NumGuilds
InstIds == {1, 2}
Clock == 0..MaxClock

(***************************************************************************)
(* Error taxonomy (shared/error-handler)                                   *)
(***************************************************************************)
NoError == "none"

\* ErrorHandler.getStatusCode: the status of an AppError, 500 for any other
GetStatusCode(error) ==
    CASE error = "ValidationError"      -> 400
      [] error = "NotFoundError"        -> 404
      [] error = "UnauthorizedError"    -> 401
      [] error = "ExternalServiceError" -> 502
      [] OTHER                          -> 500

(***************************************************************************)
(* MappingStore: FileUtils.  A directory is a function whose DOMAIN is the *)
(* set of files in it; getX returns <<record>> or <<>> (null).             *)
(***************************************************************************)
Put(dir, key, rec) == [k \in DOMAIN dir \cup {key} |-> IF k = key THEN rec ELSE dir[k]]

Unlink(dir, key) == [k \in DOMAIN dir \ {key} |-> dir[k]]

\* readYamlFile: null on ENOENT
ReadYamlFile(dir, key) == IF key \in DOMAIN dir THEN <<dir[key]>> ELSE <<>>

\* the properties that the record types declare optional
OptionalFields == {"repositories", "suspended_at", "channels"}

\* yaml.dump: the mapping of the keys that hold a value (js-yaml 4 leaves out a
\* key whose value is undefined)
YamlDump(data) ==
    [f \in {g \in DOMAIN data : g \in OptionalFields => data[g] # <<>>} |-> data[f]]

\* yaml.load, read through the record type: a key that the document lacks
\* reads as undefined
YamlLoad(content, fields) ==
    [f \in fields |-> IF f \in DOMAIN content THEN content[f] ELSE <<>>]

\* a write that leaves a file that is already there as it is
WriteYamlFileNew(dir, key, data) ==
    IF key \in DOMAIN dir THEN dir ELSE Put(dir, key, YamlLoad(YamlDump(data), DOMAIN data))

\* writeYamlFile: the file holds the dumped document; a directory keeps each
\* file as the record that yaml.load reads from it
WriteYamlFile(dir, key, data) == Put(dir, key, YamlLoad(YamlDump(data), DOMAIN data))

GetInstallation(insts, installationId) == ReadYamlFile(insts, installationId)

SaveInstallation(insts, installation) ==
    WriteYamlFile(insts, installation.installation_id, installation)

\* unlink, ENOENT ignored
DeleteInstallation(insts, installationId) == Unlink(insts, installationId)

GetGuildMapping(maps, guildId) == ReadYamlFile(maps, guildId)

SaveGuildMapping(maps, mapping) == WriteYamlFile(maps, mapping.guild_id, mapping)

DeleteGuildMapping(maps, guildId) == Unlink(maps, guildId)

\* a scan that stops at the first mapping found
FindFirstGuildByInstallation(maps, installationId) ==
    {g \in DOMAIN maps :
        /\ maps[g].installation_id = installationId
        /\ \A h \in DOMAIN maps : maps[h].installation_id = installationId => g <= h}

\* fs.readdir: the names of the files of a directory, here in ascending order
RECURSIVE Readdir(_)
Readdir(dir) ==
    IF DOMAIN dir = {} THEN <<>>
    ELSE LET file == CHOOSE k \in DOMAIN dir : \A j \in DOMAIN dir : k <= j
         IN  <<file>> \o Readdir(Unlink(dir, file))

\* a scan that keeps every mapping it reads
RECURSIVE ScanUnfiltered(_, _, _)
ScanUnfiltered(maps, files, installationId) ==
    IF files = <<>> THEN <<>>
    ELSE LET mapping == ReadYamlFile(maps, Head(files))
         IN  mapping \o ScanUnfiltered(maps, Tail(files), installationId)

\* the loop of findGuildsByInstallation: read each file, keep the mapping
\* whose installation_id is the one asked for
RECURSIVE ScanMappings(_, _, _)
ScanMappings(maps, files, installationId) ==
    IF files = <<>> THEN <<>>
    ELSE LET mapping == ReadYamlFile(maps, Head(files))
         IN  (IF mapping # <<>> /\ mapping[1].installation_id = installationId
              THEN mapping ELSE <<>>)
             \o ScanMappings(maps, Tail(files), installationId)

\* findGuildsByInstallation: the list of the mappings found
FindMappingsByInstallation(maps, installationId) ==
    ScanMappings(maps, Readdir(maps), installationId)

\* the guild ids of the mappings found
FindGuildsByInstallation(maps, installationId) ==
    LET found == FindMappingsByInstallation(maps, installationId)
    IN  {found[n].guild_id : n \in DOMAIN found}

(***************************************************************************)
(* Webhook requests                                                        *)
(***************************************************************************)
AppId == 42
Login == "acme"

RepoDocs == <<"a", "/", "d">>
RepoWeb  == <<"a", "/", "w">>
RepoFork == <<"w", "/", "d">>

\* payload.installation as the platform sends it; two snapshots per installation
PayloadInstallation(id, snap) ==
    [id |-> id, app_id |-> AppId,
     account |-> [login |-> Login, id |-> 7, type |-> "Organization"],
     permissions |-> IF snap = 1 THEN "read" ELSE "write",
     created_at |-> 0, updated_at |-> snap]

\* payload.repositories: <<>> when absent, else <<the list>>
PayloadRepositories(snap) ==
    IF snap = 1 THEN <<>>
    ELSE <<<<[id |-> 1, name |-> <<"d">>, full_name |-> RepoDocs, private |-> FALSE]>>>>

\* [event, action] pairs delivered with either snapshot, and with the first only
TwoSnapshotActions == {<<"installation", "created">>,
                  <<"installation_repositories", "added">>}

OneSnapshotActions == {<<"installation", "deleted">>, <<"installation", "suspend">>,
                 <<"installation", "unsuspend">>, <<"installation", "renamed">>,
                 <<"installation_repositories", "removed">>,
                 <<"installation_repositories", "renamed">>}

NoInstallationActions == {<<"installation", "deleted">>, <<"installation", "renamed">>,
                          <<"installation_repositories", "added">>,
                          <<"installation_repositories", "renamed">>,
                          <<"ping", "">>, <<"push", "">>}

\* the bodies a sender can post: [event, payload]; installation and
\* repositories are <<>> when the payload lacks them
Deliveries ==
    {[event |-> ea[1],
      payload |-> [action |-> ea[2], installation |-> <<PayloadInstallation(i, s)>>,
                   repositories |-> PayloadRepositories(s)]] :
        ea \in TwoSnapshotActions, i \in InstIds, s \in {1, 2}}
    \cup
    {[event |-> ea[1],
      payload |-> [action |-> ea[2], installation |-> <<PayloadInstallation(i, 1)>>,
                   repositories |-> PayloadRepositories(1)]] :
        ea \in OneSnapshotActions, i \in InstIds}
    \cup
    {[event |-> ea[1],
      payload |-> [action |-> ea[2], installation |-> <<>>, repositories |-> <<>>]] :
        ea \in NoInstallationActions}

\* the raw body on the wire: the JSON text of a payload in one of two layouts
RawBody(payload, layout) == [json |-> payload, layout |-> layout]

\* Fastify's JSON body parser
JsonParse(raw) == raw.json

\* JSON.stringify: always the compact layout
JsonStringify(body) == RawBody(body, "compact")

\* hex digest of HMAC-SHA256: DigestLen digits, each fixed by (secret, message)
HmacSha256Hex(secret, message) == [k \in 1..DigestLen |-> <<secret, message, k>>]

SignatureOver(secret, message) == <<"sha256=">> \o HmacSha256Hex(secret, message)

Header(text) == [present |-> TRUE, text |-> text]
NoHeader == [present |-> FALSE, text |-> <<>>]

SenderSecrets == {"whsec", "other"}

\* the X-Hub-Signature-256 values a sender may attach to a raw body: none,
\* signed over the raw bytes, signed over the re-serialized body, signed with
\* another secret, and a signature cut short
SignaturesFor(raw) ==
    {NoHeader}
    \cup {Header(SignatureOver(k, raw)) : k \in SenderSecrets}
    \cup {Header(SignatureOver("whsec", JsonStringify(JsonParse(raw))))}
    \cup {Header(SubSeq(SignatureOver("whsec", raw), 1, DigestLen))}

Layouts == {"compact", "spaced"}

(***************************************************************************)
(* LifecycleReconciler: GitHubService handlers and the webhook route.      *)
(* A handler maps the stores it is given to the stores it leaves, with the *)
(* error it threw (NoError when it returned).                              *)
(***************************************************************************)
Stores(insts, maps, clients) ==
    [installations |-> insts, mappings |-> maps, clients |-> clients,
     error |-> NoError, affected |-> 0]

Throw(st, error) == [st EXCEPT !.error = error]

\* payload.repositories?.map(...): id, name and full_name of every repository
\* of the payload, undefined when the payload has no list
RepositoryList(repositories) ==
    IF repositories = <<>> THEN <<>>
    ELSE <<[n \in DOMAIN repositories[1] |->
              [id |-> repositories[1][n].id, name |-> repositories[1][n].name,
               full_name |-> repositories[1][n].full_name]]>>

\* a handler that leaves the record of an installation that is already stored
HandleInstallationCreatedOnce(st, installationId, payload) ==
    LET inst == payload.installation[1]
        installation ==
            [installation_id |-> installationId,
             app_id |-> inst.app_id,
             account |-> [login |-> inst.account.login, id |-> inst.account.id,
                          type |-> inst.account.type],
             repositories |-> RepositoryList(payload.repositories),
             permissions |-> inst.permissions,
             created_at |-> inst.created_at,
             updated_at |-> inst.updated_at,
             suspended_at |-> <<>>]
    IN  IF installationId \in DOMAIN st.installations THEN st
        ELSE [st EXCEPT !.installations = SaveInstallation(st.installations, installation)]

\* GitHubService.handleInstallationCreated: build the record, saveInstallation
HandleInstallationCreated(st, installationId, payload) ==
    LET inst == payload.installation[1]
        installation ==
            [installation_id |-> installationId,
             app_id |-> inst.app_id,
             account |-> [login |-> inst.account.login, id |-> inst.account.id,
                          type |-> inst.account.type],
             repositories |-> RepositoryList(payload.repositories),
             permissions |-> inst.permissions,
             created_at |-> inst.created_at,
             updated_at |-> inst.updated_at,
             suspended_at |-> <<>>]
    IN  [st EXCEPT !.installations = SaveInstallation(st.installations, installation)]

\* a cleanup that fails when the installation file is no longer there
HandleInstallationDeletedStrict(st, installationId) ==
    LET guilds == FindGuildsByInstallation(st.mappings, installationId)
    IN  IF installationId \notin DOMAIN st.installations
        THEN Throw([st EXCEPT !.clients = Unlink(st.clients, installationId)], "Error")
        ELSE [st EXCEPT
                !.clients = Unlink(st.clients, installationId),
                !.installations = DeleteInstallation(st.installations, installationId),
                !.mappings = [g \in DOMAIN st.mappings \ guilds |-> st.mappings[g]],
                !.affected = Cardinality(guilds)]

\* GitHubService.handleInstallationDeleted: evict the client, delete the
\* installation file, delete every mapping findGuildsByInstallation returns
HandleInstallationDeleted(st, installationId) ==
    LET guilds == FindGuildsByInstallation(st.mappings, installationId)
    IN  [st EXCEPT
            !.clients = Unlink(st.clients, installationId),
            !.installations = DeleteInstallation(st.installations, installationId),
            !.mappings = [g \in DOMAIN st.mappings \ guilds |-> st.mappings[g]],
            !.affected = Cardinality(guilds)]

\* handleInstallationDeleted up to the await where it stops: after the cache
\* entry is evicted (point 0), after the installation file is deleted
\* (point 1), after the first point - 1 of the mappings found are deleted
HandleInstallationDeletedUpTo(st, installationId, point) ==
    LET evicted == [st EXCEPT !.clients = Unlink(st.clients, installationId)]
        unrecorded ==
            [evicted EXCEPT
                !.installations = DeleteInstallation(st.installations, installationId)]
        guilds == FindMappingsByInstallation(st.mappings, installationId)
        deleted == {guilds[n].guild_id : n \in 1..(point - 1)}
    IN  IF point = 0 THEN evicted
        ELSE IF point = 1 THEN unrecorded
        ELSE [unrecorded EXCEPT
                !.mappings = [g \in DOMAIN st.mappings \ deleted |-> st.mappings[g]],
                !.affected = point - 1]

\* a switch whose 'suspend' case stamps the stored record and evicts the
\* client of the installation, and whose 'unsuspend' case clears the stamp
HandleInstallationEventSuspending(st, payload) ==
    IF payload.installation = <<>>
    THEN Throw(st, "Error")
    ELSE CASE payload.action = "created" ->
                HandleInstallationCreated(st, payload.installation[1].id, payload)
           [] payload.action = "deleted" ->
                HandleInstallationDeleted(st, payload.installation[1].id)
           [] payload.action \in {"suspend", "unsuspend"} ->
                LET id == payload.installation[1].id
                IN  IF id \notin DOMAIN st.installations THEN st
                    ELSE [st EXCEPT
                            !.clients = Unlink(st.clients, id),
                            !.installations[id].suspended_at =
                                IF payload.action = "suspend" THEN <<1>> ELSE <<>>]
           [] OTHER -> st

\* a switch whose observed-only and default cases fall through into 'deleted'
HandleInstallationEventFallThrough(st, payload) ==
    IF payload.installation = <<>>
    THEN Throw(st, "Error")
    ELSE CASE payload.action = "created" ->
                HandleInstallationCreated(st, payload.installation[1].id, payload)
           [] OTHER ->
                HandleInstallationDeleted(st, payload.installation[1].id)

HandleInstallationEvent(st, payload) ==
    IF payload.installation = <<>>
    THEN Throw(st, "Error")
    ELSE CASE payload.action = "created" ->
                HandleInstallationCreated(st, payload.installation[1].id, payload)
           [] payload.action = "deleted" ->
                HandleInstallationDeleted(st, payload.installation[1].id)
           [] payload.action \in {"suspend", "unsuspend"} -> st
           [] OTHER -> st

HandleInstallationRepositoriesEvent(st, payload) ==
    IF payload.installation = <<>>
    THEN Throw(st, "Error")
    ELSE CASE payload.action \in {"added", "removed"} ->
                HandleInstallationCreated(st, payload.installation[1].id, payload)
           [] OTHER -> st

HandleWebhookEvent(st, event, payload) ==
    CASE event = "installation" -> HandleInstallationEvent(st, payload)
      [] event = "installation_repositories" -> HandleInstallationRepositoriesEvent(st, payload)
      [] event = "ping" -> st
      [] OTHER -> st

\* crypto.timingSafeEqual: a RangeError when the byte lengths differ
TimingSafeEqual(a, b) ==
    IF Len(a) # Len(b) THEN "throw" ELSE IF a = b THEN "true" ELSE "false"

\* a check that only looks for the header
VerifyHeaderPresent(payload, signature, secret) ==
    IF ~signature.present \/ signature.text = <<>> THEN "false" ELSE "true"

VerifyGitHubSignature(payload, signature, secret) ==
    IF ~signature.present \/ signature.text = <<>> THEN "false"
    ELSE IF secret = "" THEN "false"
    ELSE TimingSafeEqual(signature.text, SignatureOver(secret, payload))

\* what the POST /github route leaves and answers for one request
GithubRoute(st, req, secret) ==
    LET body == JsonParse(req.raw)
        payload == JsonStringify(body)
        verdict == VerifyGitHubSignature(payload, req.signature, secret)
    IN  CASE verdict = "throw" -> Throw(st, "RangeError")
          [] verdict = "false" -> Throw(st, "UnauthorizedError")
          [] OTHER -> HandleWebhookEvent(st, req.event, body)

\* a route that answers 200 once the request was dispatched, whatever the
\* handler threw
ResponseOnceDispatched(error) ==
    IF error \in {NoError, "Error"} THEN 200 ELSE GetStatusCode(error)

\* reply.code(200) after the handler returned, else
\* reply.code(ErrorHandler.getStatusCode(error)) in the catch block
Response(error) == IF error = NoError THEN 200 ELSE GetStatusCode(error)

\* every request a sender can make: a delivery in a layout, with a signature header
Requests ==
    UNION {{[event |-> d.event, raw |-> RawBody(d.payload, l), signature |-> sg] :
               sg \in SignaturesFor(RawBody(d.payload, l))} :
           d \in Deliveries, l \in Layouts}

Services == {"webhook", "message", "interaction"}

InstOf(payload) == IF payload.installation = <<>> THEN 0 ELSE payload.installation[1].id

\* how the header of a request stands to 'sha256=' + hex HMAC of the body the
\* route recomputes it over
SigClass(req, secret) ==
    LET expected == SignatureOver(secret, JsonStringify(JsonParse(req.raw)))
    IN  IF ~req.signature.present THEN "absent"
        ELSE IF secret # "" /\ req.signature.text = expected THEN "match"
        ELSE IF Len(req.signature.text) # Len(expected) THEN "length"
        ELSE "mismatch"

\* the header of a request is 'sha256=' + hex HMAC of the raw body under the
\* shared secret, and a shared secret is configured
SignedOverRaw(req, secret) ==
    /\ secret # ""
    /\ req.signature = Header(SignatureOver(secret, req.raw))

NoDelivery == [event |-> "", payload |-> [action |-> "", installation |-> <<>>,
                                          repositories |-> <<>>]]

\* POST /webhooks/github.  lastOp keeps the response, the delivery that was
\* dispatched to handleWebhookEvent (none when the request was turned away),
\* and in redelivered the number of mappings the same delivery removed when
\* it was handled just before (-1 when the step before was something else)
Delivered(req) ==
    \E r \in {GithubRoute(Stores(installations, mappings, installationClients["webhook"]),
                          req, webhookSecret)} :
    \E dispatched \in {IF r.error \in {"UnauthorizedError", "RangeError"} THEN NoDelivery
                       ELSE [event |-> req.event, payload |-> JsonParse(req.raw)]} :
        /\ installations' = r.installations
        /\ mappings' = r.mappings
        /\ installationClients' = [installationClients EXCEPT !["webhook"] = r.clients]
        /\ lastOp' = [op |-> "webhook",
                      args |-> dispatched,
                      sig |-> SigClass(req, webhookSecret),
                      overRaw |-> SignedOverRaw(req, webhookSecret),
                      status |-> Response(r.error), error |-> r.error,
                      affected |-> r.affected, calls |-> <<>>,
                      redelivered |-> IF /\ lastOp.op = "webhook"
                                         /\ lastOp.args = dispatched
                                         /\ lastOp.error = NoError
                                         /\ dispatched # NoDelivery
                                      THEN lastOp.affected ELSE -1]
        /\ UNCHANGED <<fsVars, webhookSecret, chatVars, now, vaultVars>>

PostGithub(req) == Delivered(req) /\ UNCHANGED uninstalled

(***************************************************************************)
(* ConfigService: configure_tenant                                         *)
(***************************************************************************)
NameChars == {"a", "d", "w", "-", ".", "_"}
Digits == {"1", "2"}

\* /^[a-zA-Z0-9_.-]+\/[a-zA-Z0-9_.-]+$/
ValidateRepoFormat(repo) ==
    \E k \in 2..(Len(repo) - 1) :
        /\ repo[k] = "/"
        /\ \A j \in (1..Len(repo)) \ {k} : repo[j] \in NameChars

\* /^\d+$/
ValidateInstallationId(installationId) ==
    /\ Len(installationId) > 0
    /\ \A j \in 1..Len(installationId) : installationId[j] \in Digits

DigitValue(c) == IF c = "1" THEN 1 ELSE 2

RECURSIVE ParseInt(_)
ParseInt(str) ==
    IF str = <<>> THEN 0
    ELSE 10 * ParseInt(SubSeq(str, 1, Len(str) - 1)) + DigitValue(str[Len(str)])

\* the index of the first "/" at or after position from, Len + 1 when there is none
RECURSIVE IndexOfSlash(_, _)
IndexOfSlash(str, from) ==
    IF from > Len(str) THEN Len(str) + 1
    ELSE IF str[from] = "/" THEN from ELSE IndexOfSlash(str, from + 1)

\* repo.split('/')[0] and [1]; <<>> stands for an empty or missing part
SplitOwner(repo) == SubSeq(repo, 1, IndexOfSlash(repo, 1) - 1)

SplitName(repo) ==
    LET k == IndexOfSlash(repo, 1)
    IN  IF k > Len(repo) THEN <<>> ELSE SubSeq(repo, k + 1, IndexOfSlash(repo, k + 1) - 1)

\* what the hosting platform answers during one configuration
PlatformAnswers ==
    [token : {"ok", "404", "500"},
     repos : {<<"fail">>, <<"ok", {}>>, <<"ok", {RepoDocs}>>, <<"ok", {RepoDocs, RepoWeb}>>,
              <<"ok", {RepoFork}>>},
     info  : {"ok", "fail"}]

\* GET /app/installations/:id
PlatformInfo(id) ==
    [app_id |-> AppId, account |-> [login |-> Login, id |-> 7, type |-> "Organization"],
     permissions |-> "write", created_at |-> 0, updated_at |-> 0, suspended_at |-> <<>>]

\* getInstallationToken: the error it throws, NoError when a token is returned
GetInstallationToken(answer) ==
    CASE answer = "ok"  -> NoError
      [] answer = "404" -> "ValidationError"
      [] OTHER          -> "ExternalServiceError"

\* an access check that looks for the repository's name under any owner
ValidateRepoAccessByName(answer, repo) ==
    IF answer[1] # "ok" THEN "ExternalServiceError"
    ELSE IF \E r \in answer[2] : SplitName(r) = SplitName(repo)
         THEN NoError ELSE "ValidationError"

\* validateRepoAccess: the listing must succeed and hold the exact full name
ValidateRepoAccess(answer, repo) ==
    IF answer[1] # "ok" THEN "ExternalServiceError"
    ELSE IF repo \in answer[2] THEN NoError ELSE "ValidationError"

GetInstallationInfo(answer) == IF answer = "ok" THEN NoError ELSE "ExternalServiceError"

\* an upsert that leaves the repository of a mapping that exists as it was
UpsertGuildMappingKeepRepo(maps, guildId, guildName, installationId, repo, t) ==
    LET existing == GetGuildMapping(maps, guildId)
    IN  SaveGuildMapping(maps,
            IF existing # <<>>
            THEN [existing[1] EXCEPT !.installation_id = ParseInt(installationId),
                                     !.updated_at = t]
            ELSE [guild_id |-> guildId, guild_name |-> guildName,
                  installation_id |-> ParseInt(installationId),
                  default_repo |-> [owner |-> SplitOwner(repo), name |-> SplitName(repo)],
                  channels |-> <<>>, created_at |-> t, updated_at |-> t])

\* an upsert that builds the mapping anew whether or not one is stored
UpsertGuildMappingAnew(maps, guildId, guildName, installationId, repo, t) ==
    SaveGuildMapping(maps,
        [guild_id |-> guildId, guild_name |-> guildName,
         installation_id |-> ParseInt(installationId),
         default_repo |-> [owner |-> SplitOwner(repo), name |-> SplitName(repo)],
         channels |-> <<>>, created_at |-> t, updated_at |-> t])

UpsertGuildMapping(maps, guildId, guildName, installationId, repo, t) ==
    LET existing == GetGuildMapping(maps, guildId)
        owner == SplitOwner(repo)
        name == SplitName(repo)
        mapping ==
            IF existing # <<>>
            THEN [existing[1] EXCEPT
                    !.guild_id = guildId,
                    !.guild_name = IF guildName # "" THEN guildName ELSE existing[1].guild_name,
                    !.installation_id = ParseInt(installationId),
                    !.default_repo = [owner |-> owner, name |-> name],
                    !.updated_at = t]
            ELSE [guild_id |-> guildId, guild_name |-> guildName,
                  installation_id |-> ParseInt(installationId),
                  default_repo |-> [owner |-> owner, name |-> name],
                  channels |-> <<>>, created_at |-> t, updated_at |-> t]
    IN  SaveGuildMapping(maps, mapping)

UpsertInstallation(insts, installationId, info) ==
    SaveInstallation(insts,
        [installation_id |-> ParseInt(installationId),
         app_id |-> info.app_id,
         account |-> [login |-> info.account.login, id |-> info.account.id,
                      type |-> info.account.type],
         repositories |-> <<>>,
         permissions |-> info.permissions,
         created_at |-> info.created_at,
         updated_at |-> info.updated_at,
         suspended_at |-> info.suspended_at])

\* a configureGuild that writes the mapping as soon as the input is well formed
ConfigureGuildEager(insts, maps, guildId, guildName, repo, installationId, ans, t) ==
    LET out(i, m, e, c) == [installations |-> i, mappings |-> m, error |-> e, calls |-> c]
        tokenErr == GetInstallationToken(ans.token)
        accessErr == ValidateRepoAccess(ans.repos, repo)
        infoErr == GetInstallationInfo(ans.info)
        saved == UpsertGuildMapping(maps, guildId, guildName, installationId, repo, t)
    IN  IF ~ValidateRepoFormat(repo) THEN out(insts, maps, "ValidationError", <<>>)
        ELSE IF ~ValidateInstallationId(installationId)
            THEN out(insts, maps, "ValidationError", <<>>)
        ELSE IF tokenErr # NoError THEN out(insts, saved, tokenErr, <<"access_tokens">>)
        ELSE IF accessErr # NoError
            THEN out(insts, saved, accessErr, <<"access_tokens", "repositories">>)
        ELSE IF infoErr # NoError
            THEN out(insts, saved, infoErr, <<"access_tokens", "repositories", "installation">>)
        ELSE out(UpsertInstallation(insts, installationId,
                                    PlatformInfo(ParseInt(installationId))),
                 saved, NoError, <<"access_tokens", "repositories", "installation">>)

\* a configureGuild that asks for the token before it looks at its input
ConfigureGuildTokenFirst(insts, maps, guildId, guildName, repo, installationId, ans, t) ==
    LET out(i, m, e, c) == [installations |-> i, mappings |-> m, error |-> e, calls |-> c]
        tokenErr == GetInstallationToken(ans.token)
        accessErr == ValidateRepoAccess(ans.repos, repo)
        infoErr == GetInstallationInfo(ans.info)
    IN  IF tokenErr # NoError THEN out(insts, maps, tokenErr, <<"access_tokens">>)
        ELSE IF ~ValidateRepoFormat(repo) \/ ~ValidateInstallationId(installationId)
            THEN out(insts, maps, "ValidationError", <<"access_tokens">>)
        ELSE IF accessErr # NoError
            THEN out(insts, maps, accessErr, <<"access_tokens", "repositories">>)
        ELSE IF infoErr # NoError
            THEN out(insts, maps, infoErr, <<"access_tokens", "repositories", "installation">>)
        ELSE out(UpsertInstallation(insts, installationId,
                                    PlatformInfo(ParseInt(installationId))),
                 UpsertGuildMapping(maps, guildId, guildName, installationId, repo, t),
                 NoError, <<"access_tokens", "repositories", "installation">>)

\* configureGuild: [installations, mappings, error, calls]
ConfigureGuildRun(insts, maps, guildId, guildName, repo, installationId, ans, t) ==
    LET out(i, m, e, c) == [installations |-> i, mappings |-> m, error |-> e, calls |-> c]
        tokenErr == GetInstallationToken(ans.token)
        accessErr == ValidateRepoAccess(ans.repos, repo)
        infoErr == GetInstallationInfo(ans.info)
    IN  IF ~ValidateRepoFormat(repo) THEN out(insts, maps, "ValidationError", <<>>)
        ELSE IF ~ValidateInstallationId(installationId)
            THEN out(insts, maps, "ValidationError", <<>>)
        ELSE IF tokenErr # NoError THEN out(insts, maps, tokenErr, <<"access_tokens">>)
        ELSE IF accessErr # NoError
            THEN out(insts, maps, accessErr, <<"access_tokens", "repositories">>)
        ELSE IF infoErr # NoError
            THEN out(insts, maps, infoErr, <<"access_tokens", "repositories", "installation">>)
        ELSE out(UpsertInstallation(insts, installationId,
                                    PlatformInfo(ParseInt(installationId))),
                 UpsertGuildMapping(maps, guildId, guildName, installationId, repo, t),
                 NoError, <<"access_tokens", "repositories", "installation">>)

GuildNames == {"Acme"}
InputRepos == {RepoDocs, RepoWeb, <<"a">>, <<"a", "/", "!">>, <<"/", "d">>,
               <<"a", "/", "d", "/", "w">>}
InputInstallationIds == {<<"1">>, <<"2">>, <<"x">>, <<>>, <<"1", "x">>}

\* answers that the run does not read are fixed, so that each run is drawn once
Read(repo, installationId, ans) ==
    LET valid == ValidateRepoFormat(repo) /\ ValidateInstallationId(installationId)
        tokenOk == valid /\ ans.token = "ok"
        accessOk == tokenOk /\ ValidateRepoAccess(ans.repos, repo) = NoError
    IN  /\ ~valid => ans.token = "ok"
        /\ ~tokenOk => ans.repos = <<"fail">>
        /\ ~accessOk => ans.info = "ok"

\* the calls of configure_tenant: what is passed, and what the platform answers
ConfigureCalls ==
    {c \in [repo : InputRepos, installationId : InputInstallationIds,
            ans : PlatformAnswers] : Read(c.repo, c.installationId, c.ans)}

\* ConfigService.configureGuild, as the /config command calls it
ConfigureGuild(guildId, guildName, repo, installationId, ans) ==
    \E r \in {ConfigureGuildRun(installations, mappings, guildId, guildName, repo,
                                installationId, ans, now)} :
        /\ installations' = r.installations
        /\ mappings' = r.mappings
        /\ lastOp' = [op |-> "configure",
                      args |-> [guildId |-> guildId, guildName |-> guildName,
                                repo |-> repo, installationId |-> installationId,
                                ans |-> ans, at |-> now],
                      sig |-> "",
                      status |-> Response(r.error), error |-> r.error,
                      affected |-> 0, calls |-> r.calls, redelivered |-> -1]
        /\ UNCHANGED <<fsVars, installationClients, processVars, now, vaultVars>>

(***************************************************************************)
(* Setup routes: POST /api/setup/guild                                     *)
(***************************************************************************)
\* a per-channel repository override, as a body of the route carries it
ChannelOverride ==
    [channel_id |-> 9, channel_name |-> "general",
     repo_override |-> [owner |-> SplitOwner(RepoWeb), name |-> SplitName(RepoWeb)]]

\* the bodies posted: the name may be missing, the channel list may be absent
CreateMappingRequests ==
    [guild_id : Guilds, guild_name : {"Old", ""}, installation_id : InstIds,
     default_repo : {[owner |-> SplitOwner(RepoDocs), name |-> SplitName(RepoDocs)]},
     channels : {<<>>, <<<<ChannelOverride>>>>}]

\* a route that stores the mapping without looking for one that is stored
PostGuildRunUnchecked(insts, maps, body, t) ==
    IF body.guild_name = "" THEN [mappings |-> maps, error |-> "ValidationError"]
    ELSE IF GetInstallation(insts, body.installation_id) = <<>>
    THEN [mappings |-> maps, error |-> "NotFoundError"]
    ELSE [mappings |->
              SaveGuildMapping(maps,
                  [guild_id |-> body.guild_id, guild_name |-> body.guild_name,
                   installation_id |-> body.installation_id,
                   default_repo |-> body.default_repo,
                   channels |-> body.channels,
                   created_at |-> t, updated_at |-> t]),
          error |-> NoError]

\* the handler of POST /guild: [mappings, error]
PostGuildRun(insts, maps, body, t) ==
    IF body.guild_name = "" THEN [mappings |-> maps, error |-> "ValidationError"]
    ELSE IF GetInstallation(insts, body.installation_id) = <<>>
    THEN [mappings |-> maps, error |-> "NotFoundError"]
    ELSE IF GetGuildMapping(maps, body.guild_id) # <<>>
    THEN [mappings |-> maps, error |-> "ValidationError"]
    ELSE [mappings |->
              SaveGuildMapping(maps,
                  [guild_id |-> body.guild_id, guild_name |-> body.guild_name,
                   installation_id |-> body.installation_id,
                   default_repo |-> body.default_repo,
                   channels |-> body.channels,
                   created_at |-> t, updated_at |-> t]),
          error |-> NoError]

\* POST /api/setup/guild: 201 with the mapping, else the status of the error
PostGuild(body) ==
    \E r \in {PostGuildRun(installations, mappings, body, now)} :
        /\ mappings' = r.mappings
        /\ lastOp' = [op |-> "create", args |-> [body |-> body, at |-> now],
                      sig |-> "",
                      status |-> IF r.error = NoError THEN 201
                                 ELSE GetStatusCode(r.error),
                      error |-> r.error,
                      affected |-> 0, calls |-> <<>>, redelivered |-> -1]
        /\ UNCHANGED <<fsVars, installations, installationClients, processVars, now,
                       vaultVars>>

(***************************************************************************)
(* GitHubService: installation clients and uploads                         *)
(***************************************************************************)
\* ticks for which the platform honours an installation credential
TokenValidity == 1

\* what apps.getInstallation answers when a new client is tested
IssuerAnswers == {"ok", "404", "500"}

\* what summarizing the file and creating the issue or gist come to
DownstreamAnswers == {"ok", "fail"}

\* an Octokit client bound to one installation.  createdAt is the tick at
\* which it was built and tested; the map of the code keeps the client alone
Client(installationId, t) == [installationId |-> installationId, createdAt |-> t]

\* a getInstallationClient that stores the client before it tests it
GetInstallationClientUntested(clients, installationId, answer, t) ==
    IF installationId \in DOMAIN clients
    THEN [clients |-> clients, client |-> <<clients[installationId]>>,
          error |-> NoError, calls |-> <<>>, served |-> "cache"]
    ELSE IF answer = "ok"
    THEN [clients |-> Put(clients, installationId, Client(installationId, t)),
          client |-> <<Client(installationId, t)>>,
          error |-> NoError, calls |-> <<"getInstallation">>, served |-> "issued"]
    ELSE [clients |-> Put(clients, installationId, Client(installationId, t)),
          client |-> <<>>,
          error |-> IF answer = "404" THEN "NotFoundError" ELSE "UnauthorizedError",
          calls |-> <<"getInstallation">>, served |-> "none"]

\* getInstallationClient on the client map of one GitHubService:
\* [clients, client, error, calls, served]
GetInstallationClient(clients, installationId, answer, t) ==
    IF installationId \in DOMAIN clients
    THEN [clients |-> clients, client |-> <<clients[installationId]>>,
          error |-> NoError, calls |-> <<>>, served |-> "cache"]
    ELSE IF answer = "ok"
    THEN [clients |-> Put(clients, installationId, Client(installationId, t)),
          client |-> <<Client(installationId, t)>>,
          error |-> NoError, calls |-> <<"getInstallation">>, served |-> "issued"]
    ELSE [clients |-> clients, client |-> <<>>,
          error |-> IF answer = "404" THEN "NotFoundError" ELSE "UnauthorizedError",
          calls |-> <<"getInstallation">>, served |-> "none"]

\* an upload that summarizes the file before it looks the tenant up
ProcessFileUploadRunSummarizing(maps, clients, guildId, answer, downstream, t) ==
    LET guildMapping == GetGuildMapping(maps, guildId)
        got == GetInstallationClient(clients, guildMapping[1].installation_id, answer, t)
    IN  IF guildMapping = <<>>
        THEN [clients |-> clients, client |-> <<>>, error |-> "NotFoundError",
              calls |-> <<"summarize", "logOperation">>, served |-> "none"]
        ELSE IF got.error # NoError
        THEN [got EXCEPT !.calls = @ \o <<"logOperation">>]
        ELSE IF downstream # "ok"
        THEN [got EXCEPT !.error = "ExternalServiceError",
                         !.calls = @ \o <<"summarize", "logOperation">>]
        ELSE [got EXCEPT !.calls = @ \o <<"summarize", "create", "logOperation">>]

\* processFileUpload: [clients, client, error, calls, served]
ProcessFileUploadRun(maps, clients, guildId, answer, downstream, t) ==
    LET guildMapping == GetGuildMapping(maps, guildId)
        got == GetInstallationClient(clients, guildMapping[1].installation_id, answer, t)
    IN  IF guildMapping = <<>>
        THEN [clients |-> clients, client |-> <<>>, error |-> "NotFoundError",
              calls |-> <<"logOperation">>, served |-> "none"]
        ELSE IF got.error # NoError
        THEN [got EXCEPT !.calls = @ \o <<"logOperation">>]
        ELSE IF downstream # "ok"
        THEN [got EXCEPT !.error = "ExternalServiceError",
                         !.calls = @ \o <<"summarize", "logOperation">>]
        ELSE [got EXCEPT !.calls = @ \o <<"summarize", "create", "logOperation">>]

\* the services that take uploads: the message handler and the interaction
\* handler, each with a GitHubService of its own
UploadServices == {"message", "interaction"}

\* an upload through one of the bot's handlers.  lastOp keeps the tick of the
\* upload, the installation asked for, where the client came from and the
\* tick at which the client handed out was built
ProcessFileUpload(service, guildId, answer, downstream) ==
    \E r \in {ProcessFileUploadRun(mappings, installationClients[service], guildId,
                                   answer, downstream, now)} :
        /\ installationClients' = [installationClients EXCEPT ![service] = r.clients]
        /\ lastOp' = [op |-> "upload",
                      args |-> [service |-> service, guildId |-> guildId,
                                installationId |->
                                    IF guildId \in DOMAIN mappings
                                    THEN mappings[guildId].installation_id ELSE 0,
                                at |-> now, served |-> r.served,
                                createdAt |-> IF r.client = <<>> THEN -1
                                              ELSE r.client[1].createdAt],
                      sig |-> "",
                      status |-> Response(r.error), error |-> r.error,
                      affected |-> 0, calls |-> r.calls, redelivered |-> -1]
        /\ UNCHANGED <<fsVars, installations, mappings, processVars, now, vaultVars>>

(***************************************************************************)
(* SecretVault: SecretStore.  Strings are sequences of characters, buffers *)
(* sequences of bytes; a ciphertext byte and an authentication tag are     *)
(* kept as the terms that AES-256-GCM computes them from.                  *)
(***************************************************************************)
NoFile == <<>>

ALG == "aes-256-gcm"

\* length of CONFIG_MASTER_KEY when it is taken as the key itself
HexKeyLen == 64
HexChars == {"0", "a", "f", "A"}
Whitespace == {" ", "\n"}

RECURSIVE TrimStart(_)
TrimStart(str) ==
    IF str # <<>> /\ Head(str) \in Whitespace THEN TrimStart(Tail(str)) ELSE str

RECURSIVE TrimEnd(_)
TrimEnd(str) ==
    IF str # <<>> /\ str[Len(str)] \in Whitespace
    THEN TrimEnd(SubSeq(str, 1, Len(str) - 1)) ELSE str

\* String.prototype.trim
Trim(str) == TrimEnd(TrimStart(str))

\* /^[0-9a-fA-F]{64}$/
IsHexKey(str) == Len(str) = HexKeyLen /\ \A i \in 1..Len(str) : str[i] \in HexChars

\* Buffer.from(hex, 'hex'): the digits, whatever their case
FromHex(str) == [raw |-> [i \in 1..Len(str) |-> IF str[i] = "A" THEN "a" ELSE str[i]]]

\* scryptSync(passphrase, 'discord-commit.v1', 32)
Scrypt(str) == [scrypt |-> str, salt |-> "discord-commit.v1"]

KeyFrom(material) == IF IsHexKey(material) THEN FromHex(material) ELSE Scrypt(material)

\* getOrCreateMasterKeyFile: [key, keyFile]; fresh is what randomBytes gives
GetOrCreateMasterKeyFile(file, fresh) ==
    IF file # NoFile /\ Trim(file[1]) # <<>>
    THEN [key |-> KeyFrom(Trim(file[1])), keyFile |-> file]
    ELSE [key |-> FromHex(fresh), keyFile |-> <<fresh \o <<"\n">>>>]

\* a resolution that takes the key file when it holds a key, whatever is
\* configured
GetMasterKeyFileFirst(env, file, fresh) ==
    IF file # NoFile /\ Trim(file[1]) # <<>> THEN GetOrCreateMasterKeyFile(file, fresh)
    ELSE IF Trim(env) # <<>> THEN [key |-> KeyFrom(env), keyFile |-> file]
    ELSE GetOrCreateMasterKeyFile(file, fresh)

\* getMasterKey: [key, keyFile]
GetMasterKey(env, file, fresh) ==
    IF Trim(env) # <<>> THEN [key |-> KeyFrom(env), keyFile |-> file]
    ELSE GetOrCreateMasterKeyFile(file, fresh)

\* UTF-8: one byte for an ASCII character, two for e-acute
Utf8Bytes(c) ==
    CASE c = "s" -> <<115>>
      [] c = "k" -> <<107>>
      [] c = "e_acute" -> <<195, 169>>
      [] OTHER -> <<239, 191, 189>>

RECURSIVE Utf8Encode(_)
Utf8Encode(str) == IF str = <<>> THEN <<>> ELSE Utf8Bytes(Head(str)) \o Utf8Encode(Tail(str))

\* every byte taken for a character of its own
RECURSIVE Latin1Decode(_)
Latin1Decode(bytes) ==
    IF bytes = <<>> THEN <<>>
    ELSE <<CASE Head(bytes) = 115 -> "s"
             [] Head(bytes) = 107 -> "k"
             [] OTHER -> "latin1">> \o Latin1Decode(Tail(bytes))

\* Buffer.toString('utf8')
RECURSIVE Utf8Decode(_)
Utf8Decode(bytes) ==
    IF bytes = <<>> THEN <<>>
    ELSE IF Head(bytes) = 115 THEN <<"s">> \o Utf8Decode(Tail(bytes))
    ELSE IF Head(bytes) = 107 THEN <<"k">> \o Utf8Decode(Tail(bytes))
    ELSE IF Len(bytes) >= 2 /\ bytes[1] = 195 /\ bytes[2] = 169
        THEN <<"e_acute">> \o Utf8Decode(Tail(Tail(bytes)))
    ELSE <<"U+FFFD">> \o Utf8Decode(Tail(bytes))

\* the buffer is kept in blocks: the nonce (12 bytes) is one block, the tag
\* (16 bytes) is one block, the ciphertext one block per byte
IvLen == 1
TagLen == 1

\* a ciphertext byte is kept as the plaintext byte and the place (nonce,
\* position) of the key-stream byte it is XORed with; the key is the one
\* that the tag over the ciphertext names
GcmCipher(key, iv, bytes) ==
    [i \in 1..Len(bytes) |-> [iv |-> iv, at |-> i, byte |-> bytes[i]]]

GcmTag(key, iv, data) == [tag |-> <<key, iv, data>>]

\* toString('base64') and Buffer.from(enc, 'base64')
Base64Encode(buf) == [base64 |-> buf]
Base64Decode(enc) == enc.base64

\* encrypt: the EncRecord of a plaintext
Encrypt(plain, key, iv, t) ==
    LET cipherText == GcmCipher(key, <<iv>>, Utf8Encode(plain))
        tag == GcmTag(key, <<iv>>, cipherText)
    IN  [enc |-> Base64Encode(<<iv>> \o cipherText \o <<tag>>),
         algo |-> ALG, ver |-> 1, updatedAt |-> t]

\* decrypt: [error, plain]; decipher.final() throws an Error when the tag
\* is not the tag of (key, iv, data)
Decrypt(rec, key) ==
    LET buf == Base64Decode(rec.enc)
        iv == SubSeq(buf, 1, IvLen)
        tag == SubSeq(buf, Len(buf) - TagLen + 1, Len(buf))
        data == SubSeq(buf, IvLen + 1, Len(buf) - TagLen)
    IN  IF rec.algo # ALG THEN [error |-> "ValidationError", plain |-> <<>>]
        ELSE IF tag # <<GcmTag(key, iv, data)>> THEN [error |-> "Error", plain |-> <<>>]
        ELSE [error |-> NoError,
              plain |-> Utf8Decode([i \in 1..Len(data) |-> data[i].byte])]

NoSecrets == [n \in {} |-> <<>>]

\* readFile: null on ENOENT
ReadFile(files, guildId) == IF guildId \in DOMAIN files THEN <<files[guildId]>> ELSE <<>>

\* writeFile: the temporary file, renamed over the file
WriteFile(files, guildId, data) == Put(files, guildId, data)

\* a put that writes the new secret and none of those it read
SecretPutAlone(files, env, file, guildId, key, plain, iv, fresh, t) ==
    LET mk == GetMasterKey(env, file, fresh)
        rec == Encrypt(plain, mk.key, iv, t)
    IN  [files |-> WriteFile(files, guildId,
                             [guildId |-> guildId, secrets |-> Put(NoSecrets, key, rec),
                              updatedAt |-> t]),
         keyFile |-> mk.keyFile, error |-> NoError, result |-> <<>>,
         calls |-> <<"writeFile", "rename">>]

\* put: [files, keyFile, error, result, calls]
SecretPut(files, env, file, guildId, key, plain, iv, fresh, t) ==
    LET mk == GetMasterKey(env, file, fresh)
        rec == Encrypt(plain, mk.key, iv, t)
        read == ReadFile(files, guildId)
        current == IF read = <<>>
                   THEN [guildId |-> guildId, secrets |-> NoSecrets, updatedAt |-> t]
                   ELSE read[1]
    IN  [files |-> WriteFile(files, guildId,
                             [current EXCEPT !.secrets = Put(@, key, rec),
                                             !.updatedAt = t]),
         keyFile |-> mk.keyFile, error |-> NoError, result |-> <<>>,
         calls |-> <<"writeFile", "rename">>]

\* get: [files, keyFile, error, result, calls]; result is <<>> for null
SecretGet(files, env, file, guildId, key, fresh) ==
    LET read == ReadFile(files, guildId)
        mk == GetMasterKey(env, file, fresh)
        plain == Decrypt(read[1].secrets[key], mk.key)
    IN  IF read = <<>> \/ key \notin DOMAIN read[1].secrets
        THEN [files |-> files, keyFile |-> file, error |-> NoError, result |-> <<>>,
              calls |-> <<>>]
        ELSE [files |-> files, keyFile |-> mk.keyFile, error |-> plain.error,
              result |-> IF plain.error = NoError THEN <<plain.plain>> ELSE <<>>,
              calls |-> <<>>]

\* has
SecretHas(files, guildId, key) ==
    LET read == ReadFile(files, guildId)
    IN  read # <<>> /\ key \in DOMAIN read[1].secrets

\* a remove that returns early only when the file is missing
SecretRemoveRewriting(files, guildId, key, t) ==
    LET read == ReadFile(files, guildId)
    IN  IF read = <<>>
        THEN [files |-> files, error |-> NoError, calls |-> <<>>]
        ELSE [files |-> WriteFile(files, guildId,
                                  [read[1] EXCEPT !.secrets = Unlink(@, key),
                                                  !.updatedAt = t]),
              error |-> NoError, calls |-> <<"writeFile", "rename">>]

\* remove: [files, error, calls]
SecretRemove(files, guildId, key, t) ==
    LET read == ReadFile(files, guildId)
    IN  IF read = <<>> \/ key \notin DOMAIN read[1].secrets
        THEN [files |-> files, error |-> NoError, calls |-> <<>>]
        ELSE [files |-> WriteFile(files, guildId,
                                  [read[1] EXCEPT !.secrets = Unlink(@, key),
                                                  !.updatedAt = t]),
              error |-> NoError, calls |-> <<"writeFile", "rename">>]

Tenants == {1, 2}
SecretNames == {"openai_api_key", "api_key"}
Plaintexts == {<<"s", "k">>, <<"e_acute">>}

\* what randomBytes gives: a nonce for encrypt, a key for the key file
Nonces == {[nonce |-> 1]}
GeneratedKeys == {[i \in 1..HexKeyLen |-> "0"]}

\* values of CONFIG_MASTER_KEY: unset, a key in hex, a passphrase
MasterKeyEnvs == {<<>>, [i \in 1..HexKeyLen |-> "a"], <<"p", "w">>, <<" ">>}

\* the end of an operation of the vault, as its caller sees it
Vaulted(op, guildId, key, plain, r) ==
    /\ secretFiles' = r.files
    /\ keyFile' = r.keyFile
    /\ lastOp' = [op |-> op,
                  args |-> [guildId |-> guildId, key |-> key, plain |-> plain,
                            result |-> r.result],
                  sig |-> "", status |-> 0, error |-> r.error,
                  affected |-> 0, calls |-> r.calls, redelivered |-> -1]
    /\ UNCHANGED <<fsVars, installations, mappings, installationClients, processVars, now,
                   masterKeyEnv>>

(***************************************************************************)
(* The stores between awaits.  A call of an async method runs up to its    *)
(* next await in one step; fs.writeFile opens its file (which empties it)  *)
(* in one step and writes the content in a later one; fs.rename and        *)
(* fs.unlink are one step each.                                            *)
(***************************************************************************)
MaxCalls == 2

\* two calls can be in flight at once
Handlers == {"first", "second"}

Path(dir, id) == [dir |-> dir, id |-> id]
NoPath == Path("", 0)

\* one mapping file for every guild
MappingPathShared(guildId) == Path("guild_mappings", 1)

\* FileUtils guild mapping file, installation file; SecretStore file and tmp
MappingPath(guildId) == Path("guild_mappings", guildId)
InstallationPath(installationId) == Path("installations", installationId)
SecretsPath(guildId) == Path("guilds", guildId)
TmpPath(guildId) == Path("guilds.tmp", guildId)

\* a writeFile that writes the secrets file where it stands
WriteInPlace(guildId) == SecretsPath(guildId)

\* SecretStore.writeFile: the path that fs.writeFile is given
WriteTarget(guildId) == TmpPath(guildId)

Directory(dir) ==
    CASE dir = "guild_mappings" -> mappings
      [] dir = "installations"  -> installations
      [] dir = "guilds"         -> secretFiles
      [] OTHER                  -> tmpFiles

\* what fs.readFile and the parser give for a path: absent (ENOENT), the
\* record, or the content of a file that is open for writing
Observed(path) ==
    IF path.id \notin DOMAIN Directory(path.dir) THEN <<"absent">>
    ELSE IF path \in torn THEN <<"torn">>
    ELSE <<"whole", Directory(path.dir)[path.id]>>

\* the directories after f has been applied to the one that holds path
Stored(path, f(_)) ==
    [guild_mappings |-> IF path.dir = "guild_mappings" THEN f(mappings) ELSE mappings,
     installations  |-> IF path.dir = "installations" THEN f(installations)
                        ELSE installations,
     guilds         |-> IF path.dir = "guilds" THEN f(secretFiles) ELSE secretFiles,
     tmp            |-> IF path.dir = "guilds.tmp" THEN f(tmpFiles) ELSE tmpFiles]

Disk(d) ==
    /\ mappings' = d.guild_mappings
    /\ installations' = d.installations
    /\ secretFiles' = d.guilds
    /\ tmpFiles' = d.tmp

NoCall == [pc |-> "idle", op |-> "", guildId |-> 0, key |-> "", writes |-> <<>>,
           target |-> NoPath, clash |-> FALSE, error |-> NoError,
           file |-> NoPath, before |-> <<>>, data |-> <<>>, alone |-> TRUE]

AtRest(call) == call.pc \in {"idle", "done", "crashed"}

\* a call takes the first handler that is free
Free(h) ==
    /\ AtRest(inFlight[h])
    /\ h = "second" => ~AtRest(inFlight["first"])

\* a call on the file of a guild begins: the calls that were on that file
\* are no longer alone on it, and neither is the new one if one is in flight
Begin(h, call) ==
    /\ Free(h)
    /\ begun < MaxCalls
    /\ begun' = begun + 1
    /\ inFlight' =
         [q \in Handlers |->
            IF q = h
            THEN [call EXCEPT !.before = Observed(call.file),
                              !.alone = \A o \in Handlers \ {h} :
                                           AtRest(inFlight[o]) \/ inFlight[o].file # call.file]
            ELSE IF inFlight[q].file = call.file
                 THEN [inFlight[q] EXCEPT !.alone = FALSE]
                 ELSE inFlight[q]]

\* the end of a call that writes nothing, or throws before it writes
Ended(op, guildId, key, file, error) ==
    [NoCall EXCEPT !.pc = "done", !.op = op, !.guildId = guildId, !.key = key,
                   !.file = file, !.error = error]

\* a call that has read and is about to write; data is what it writes to
\* the file of its guild
Writing(op, guildId, key, file, writes) ==
    [NoCall EXCEPT !.pc = "open", !.op = op, !.guildId = guildId, !.key = key,
                   !.file = file, !.writes = writes, !.data = <<writes[1].data>>]

\* SecretStore.put up to the await in writeFile: encrypt, readFile, the merge
PutCall(h, guildId, key, plain) ==
    \E iv \in Nonces, fresh \in GeneratedKeys :
    \E r \in {SecretPut(secretFiles, masterKeyEnv, keyFile, guildId, key, plain,
                        iv, fresh, now)} :
        /\ Begin(h, IF Observed(SecretsPath(guildId)) = <<"torn">>
                    THEN Ended("put", guildId, key, SecretsPath(guildId), "SyntaxError")
                    ELSE Writing("put", guildId, key, SecretsPath(guildId),
                                 <<[path |-> WriteTarget(guildId),
                                    data |-> r.files[guildId]]>>))
        /\ keyFile' = r.keyFile
        /\ UNCHANGED <<installations, mappings, installationClients, processVars, now,
                       secretFiles, masterKeyEnv, lastOp, torn, tmpFiles>>

\* SecretStore.remove up to the await in writeFile
RemoveCall(h, guildId, key) ==
    \E r \in {SecretRemove(secretFiles, guildId, key, now)} :
        /\ Begin(h, IF Observed(SecretsPath(guildId)) = <<"torn">>
                    THEN Ended("remove", guildId, key, SecretsPath(guildId), "SyntaxError")
                    ELSE IF r.calls = <<>>
                    THEN Ended("remove", guildId, key, SecretsPath(guildId), NoError)
                    ELSE Writing("remove", guildId, key, SecretsPath(guildId),
                                 <<[path |-> WriteTarget(guildId),
                                    data |-> r.files[guildId]]>>))
        /\ UNCHANGED <<installations, mappings, installationClients, processVars, now,
                       vaultVars, lastOp, torn, tmpFiles>>

\* what yaml.load makes of a mapping file that is open for writing: nothing
\* (no content yet) or a YAMLException
TornYaml == {"empty", "throws"}

\* configureGuild, granted by the platform, up to the await in the first
\* writeYamlFile: the mapping is read and merged, the installation is built
ConfigureCall(h, guildId, guildName, repo, installationId) ==
    \E parsed \in IF Observed(MappingPath(guildId)) = <<"torn">> THEN TornYaml
                  ELSE {"whole"} :
    \E read \in {IF parsed = "whole" THEN mappings ELSE Unlink(mappings, guildId)} :
        /\ Begin(h, IF parsed = "throws"
                    THEN Ended("configure", guildId, "", MappingPath(guildId),
                               "YAMLException")
                    ELSE Writing("configure", guildId, "", MappingPath(guildId),
                           <<[path |-> MappingPath(guildId),
                              data |-> UpsertGuildMapping(read, guildId, guildName,
                                           installationId, repo, now)[guildId]],
                             [path |-> InstallationPath(ParseInt(installationId)),
                              data |-> UpsertInstallation(installations, installationId,
                                           PlatformInfo(ParseInt(installationId)))
                                               [ParseInt(installationId)]]>>))
        /\ UNCHANGED <<installations, mappings, installationClients, processVars, now,
                       vaultVars, lastOp, torn, tmpFiles>>

\* a call whose file was unlinked while it had it open writes to no path
Unlinked(path) ==
    [q \in Handlers |->
        IF inFlight[q].pc = "write" /\ inFlight[q].target = path
        THEN [inFlight[q] EXCEPT !.target = NoPath] ELSE inFlight[q]]

\* FileUtils.deleteGuildMapping: one unlink, ENOENT ignored
DeleteCall(h, guildId) ==
    /\ Free(h)
    /\ begun < MaxCalls
    /\ begun' = begun + 1
    /\ inFlight' =
         [q \in Handlers |->
            IF q = h
            THEN [Ended("delete", guildId, "", MappingPath(guildId), NoError)
                    EXCEPT !.before = Observed(MappingPath(guildId)),
                           !.alone = \A o \in Handlers \ {h} :
                                        \/ AtRest(inFlight[o])
                                        \/ inFlight[o].file # MappingPath(guildId)]
            ELSE IF inFlight[q].file = MappingPath(guildId)
                 THEN [Unlinked(MappingPath(guildId))[q] EXCEPT !.alone = FALSE]
                 ELSE inFlight[q]]
    /\ mappings' = DeleteGuildMapping(mappings, guildId)
    /\ torn' = torn \ {MappingPath(guildId)}
    /\ UNCHANGED <<installations, installationClients, processVars, now,
                   vaultVars, lastOp, tmpFiles>>

\* fs.writeFile opens its path with O_TRUNC: the file exists and is empty
Opened(h) ==
    /\ inFlight[h].pc = "open"
    /\ \E w \in {Head(inFlight[h].writes)} :
        /\ Disk(Stored(w.path, LAMBDA dir : Put(dir, w.path.id, w.data)))
        /\ torn' = torn \cup {w.path}
        /\ inFlight' = [inFlight EXCEPT ![h].pc = "write", ![h].target = w.path,
                                        ![h].clash = FALSE]
    /\ UNCHANGED <<installationClients, processVars, now, masterKeyEnv, keyFile,
                   lastOp, begun>>

\* the content is written through the open descriptor.  When another call
\* wrote other content through a descriptor of its own since this one opened
\* the file, the file ends as this content or as a mix of the two
Written(h) ==
    /\ inFlight[h].pc = "write"
    /\ \E w \in {Head(inFlight[h].writes)}, t \in {inFlight[h].target} :
       \E mixed \in IF inFlight[h].clash /\ t # NoPath THEN BOOLEAN ELSE {FALSE} :
        /\ IF t = NoPath
           THEN UNCHANGED <<installations, mappings, secretFiles, tmpFiles, torn>>
           ELSE /\ Disk(Stored(t, LAMBDA dir : Put(dir, t.id, w.data)))
                /\ torn' = IF mixed THEN torn \cup {t} ELSE torn \ {t}
        /\ inFlight' =
             [q \in Handlers |->
                IF q = h
                THEN IF w.path.dir = "guilds.tmp"
                     THEN [inFlight[h] EXCEPT !.pc = "rename"]
                     ELSE IF Len(inFlight[h].writes) > 1
                     THEN [inFlight[h] EXCEPT !.pc = "open", !.writes = Tail(@),
                                              !.target = NoPath]
                     ELSE [inFlight[h] EXCEPT !.pc = "done", !.writes = <<>>,
                                              !.target = NoPath]
                ELSE IF /\ inFlight[q].pc = "write"
                        /\ t # NoPath
                        /\ inFlight[q].target = t
                        /\ Head(inFlight[q].writes).data # w.data
                     THEN [inFlight[q] EXCEPT !.clash = TRUE]
                     ELSE inFlight[q]]
    /\ UNCHANGED <<installationClients, processVars, now, masterKeyEnv, keyFile,
                   lastOp, begun>>

\* fs.rename(tmp, file): ENOENT when the temporary file is gone; else the
\* file is what the temporary file was, and a descriptor that another call
\* holds on the temporary file now writes to the file
Renamed(h) ==
    /\ inFlight[h].pc = "rename"
    /\ \E g \in {inFlight[h].guildId} :
        IF g \notin DOMAIN tmpFiles
        THEN /\ inFlight' = [inFlight EXCEPT ![h].pc = "done", ![h].error = "ENOENT",
                                             ![h].writes = <<>>, ![h].target = NoPath]
             /\ UNCHANGED <<secretFiles, tmpFiles, torn>>
        ELSE /\ secretFiles' = Put(secretFiles, g, tmpFiles[g])
             /\ tmpFiles' = Unlink(tmpFiles, g)
             /\ torn' = (torn \ {TmpPath(g), SecretsPath(g)})
                            \cup (IF TmpPath(g) \in torn THEN {SecretsPath(g)} ELSE {})
             /\ inFlight' =
                  [q \in Handlers |->
                     IF q = h
                     THEN [inFlight[h] EXCEPT !.pc = "done", !.writes = <<>>,
                                              !.target = NoPath]
                     ELSE IF inFlight[q].pc = "write" /\ inFlight[q].target = TmpPath(g)
                          THEN [inFlight[q] EXCEPT !.target = SecretsPath(g)]
                          ELSE inFlight[q]]
    /\ UNCHANGED <<installations, mappings, installationClients, processVars, now,
                   masterKeyEnv, keyFile, lastOp, begun>>

\* what a route reads of a path before it goes on: the record, nothing
\* (ENOENT, or a file open for writing that is still empty), or a throw of
\* the parser
ReadsOf(path) ==
    IF Observed(path) = <<"absent">> THEN {<<"null">>}
    ELSE IF Observed(path) = <<"torn">> THEN {<<"null">>, <<"throws">>}
    ELSE {<<"record", Observed(path)[2]>>}

\* POST /api/setup/guild up to the await in writeYamlFile: the installation
\* must be stored, the mapping must not
CreateCall(h, guildId, installationId) ==
    \E installation \in ReadsOf(InstallationPath(installationId)),
       existing \in ReadsOf(MappingPath(guildId)) :
        /\ Begin(h, IF installation = <<"throws">>
                    THEN Ended("create", guildId, "", MappingPath(guildId), "YAMLException")
                    ELSE IF installation = <<"null">>
                    THEN Ended("create", guildId, "", MappingPath(guildId), "NotFoundError")
                    ELSE IF existing = <<"throws">>
                    THEN Ended("create", guildId, "", MappingPath(guildId), "YAMLException")
                    ELSE IF existing # <<"null">>
                    THEN Ended("create", guildId, "", MappingPath(guildId),
                               "ValidationError")
                    ELSE Writing("create", guildId, "", MappingPath(guildId),
                           <<[path |-> MappingPath(guildId),
                              data |-> [guild_id |-> guildId, guild_name |-> "Acme",
                                        installation_id |-> installationId,
                                        default_repo |-> [owner |-> SplitOwner(RepoDocs),
                                                          name |-> SplitName(RepoDocs)],
                                        channels |-> <<>>, created_at |-> now,
                                        updated_at |-> now]]>>))
        /\ UNCHANGED <<installations, mappings, installationClients, processVars, now,
                       vaultVars, lastOp, torn, tmpFiles>>

\* PUT /api/setup/guild/:guildId with an installation_id in the body, up to
\* the await in writeYamlFile: the mapping must be stored, and the
\* installation too when it is another than the one of the mapping
UpdateCall(h, guildId, installationId) ==
    \E existing \in ReadsOf(MappingPath(guildId)),
       installation \in ReadsOf(InstallationPath(installationId)) :
        /\ Begin(h, IF existing = <<"throws">>
                    THEN Ended("update", guildId, "", MappingPath(guildId), "YAMLException")
                    ELSE IF existing = <<"null">>
                    THEN Ended("update", guildId, "", MappingPath(guildId), "NotFoundError")
                    ELSE IF /\ installationId # existing[2].installation_id
                            /\ installation = <<"throws">>
                    THEN Ended("update", guildId, "", MappingPath(guildId), "YAMLException")
                    ELSE IF /\ installationId # existing[2].installation_id
                            /\ installation = <<"null">>
                    THEN Ended("update", guildId, "", MappingPath(guildId), "NotFoundError")
                    ELSE Writing("update", guildId, "", MappingPath(guildId),
                           <<[path |-> MappingPath(guildId),
                              data |-> [existing[2] EXCEPT
                                           !.installation_id = installationId,
                                           !.guild_id = guildId,
                                           !.updated_at = now]]>>))
        /\ UNCHANGED <<installations, mappings, installationClients, processVars, now,
                       vaultVars, lastOp, torn, tmpFiles>>

\* an installation.created delivery up to the await in writeYamlFile
InstalledCall(h, installationId) ==
    /\ Begin(h, Writing("created", 0, "", InstallationPath(installationId),
                  <<[path |-> InstallationPath(installationId),
                     data |-> HandleInstallationCreated(
                                  Stores(<<>>, <<>>, <<>>), installationId,
                                  [installation |-> <<PayloadInstallation(installationId, 1)>>,
                                   repositories |-> PayloadRepositories(1)])
                              .installations[installationId]]>>))
    /\ UNCHANGED <<installations, mappings, installationClients, processVars, now,
                   vaultVars, lastOp, torn, tmpFiles>>

\* an installation.deleted delivery up to the await of findGuildsByInstallation:
\* the cache entry is evicted and the installation file unlinked
UninstallCall(h, installationId) ==
    /\ Free(h)
    /\ begun < MaxCalls
    /\ begun' = begun + 1
    /\ inFlight' =
         [q \in Handlers |->
            IF q = h
            THEN [NoCall EXCEPT !.pc = "scan", !.op = "uninstall",
                                !.file = InstallationPath(installationId)]
            ELSE Unlinked(InstallationPath(installationId))[q]]
    /\ installations' = DeleteInstallation(installations, installationId)
    /\ installationClients' =
         [installationClients EXCEPT !["webhook"] = Unlink(@, installationId)]
    /\ torn' = torn \ {InstallationPath(installationId)}
    /\ UNCHANGED <<mappings, processVars, now, vaultVars, lastOp, tmpFiles>>

\* findGuildsByInstallation in the cascade: readdir and the read of every
\* file; a file that is open for writing reads as nothing and is passed
\* over, or makes the parser throw, which ends the handler
Scanned(h) ==
    /\ inFlight[h].pc = "scan"
    /\ \E parsed \in IF \E g \in DOMAIN mappings : MappingPath(g) \in torn
                     THEN TornYaml ELSE {"whole"} :
       \E read \in {[g \in {k \in DOMAIN mappings : MappingPath(k) \notin torn}
                        |-> mappings[g]]} :
       \E guilds \in {FindMappingsByInstallation(read, inFlight[h].file.id)} :
            inFlight' =
                [inFlight EXCEPT ![h] =
                    IF parsed = "throws"
                    THEN [@ EXCEPT !.pc = "done", !.error = "YAMLException"]
                    ELSE IF guilds = <<>> THEN [@ EXCEPT !.pc = "done"]
                    ELSE [@ EXCEPT !.pc = "unlink",
                                   !.writes = [n \in DOMAIN guilds |->
                                                 [path |-> MappingPath(guilds[n].guild_id),
                                                  data |-> <<>>]]]]
    /\ UNCHANGED <<installations, mappings, installationClients, processVars, now,
                   vaultVars, lastOp, torn, tmpFiles, begun>>

\* the loop of the cascade: deleteGuildMapping of the next mapping found
CascadeUnlinked(h) ==
    /\ inFlight[h].pc = "unlink"
    /\ \E w \in {Head(inFlight[h].writes)} :
        /\ mappings' = DeleteGuildMapping(mappings, w.path.id)
        /\ torn' = torn \ {w.path}
        /\ inFlight' =
             [q \in Handlers |->
                IF q = h
                THEN [inFlight[h] EXCEPT
                        !.writes = Tail(@),
                        !.pc = IF Len(inFlight[h].writes) > 1 THEN "unlink" ELSE "done"]
                ELSE Unlinked(w.path)[q]]
    /\ UNCHANGED <<installations, installationClients, processVars, now,
                   vaultVars, lastOp, tmpFiles, begun>>

\* the process dies: every call in flight ends where it stands, the files
\* stay as they are
Crash ==
    /\ \E h \in Handlers : ~AtRest(inFlight[h])
    /\ inFlight' = [h \in Handlers |->
                      IF AtRest(inFlight[h]) THEN inFlight[h]
                      ELSE [inFlight[h] EXCEPT !.pc = "crashed", !.writes = <<>>,
                                               !.target = NoPath, !.clash = FALSE]]
    /\ UNCHANGED <<installations, mappings, installationClients, processVars, now,
                   vaultVars, lastOp, torn, tmpFiles, begun>>

(***************************************************************************)
(* Reconciliation and configuration                                        *)
(***************************************************************************)

Idle == [op |-> "init", args |-> <<>>, sig |-> "", status |-> 0, error |-> NoError,
         affected |-> 0, calls |-> <<>>, redelivered |-> -1]

(***************************************************************************)
(* Pending input: /issue and MessageHandler.handleMessage.  The map of the *)
(* users waited for is one for the process; a handleMessage call that      *)
(* takes a message as an issue body awaits processFileUpload before it     *)
(* removes the entry of the author.                                        *)
(***************************************************************************)
\* /issue commands a user gives
MaxCommands == 2

Users == {"u1", "u2"}

\* two channels of guild 1, and a direct-message channel
Channels == {"c1", "c2"}
DirectMessages == "dm"

GuildOf(channel) == IF channel = DirectMessages THEN <<>> ELSE <<1>>

\* who writes a message: a user, or a bot
Authors == [id : Users, bot : {FALSE}] \cup {[id |-> "app", bot |-> TRUE]}

ChatMessages == [author : Authors, channel : Channels \cup {DirectMessages}]

NoMessage == [pc |-> "idle", author |-> "", channel |-> ""]

\* handleIssueTextCommand: [map, error]; the error is replied, not thrown
HandleIssueTextCommand(map, user, channel) ==
    IF GuildOf(channel) = <<>>
    THEN [map |-> map, error |-> "ValidationError"]
    ELSE [map |-> Put(map, user, channel), error |-> NoError]

\* handleMessage takes the message as an issue body: the author is no bot,
\* the message is in a guild, and the author is waited for in its channel
TakenAsIssueBody(map, message) ==
    /\ ~message.author.bot
    /\ GuildOf(message.channel) # <<>>
    /\ message.author.id \in DOMAIN map
    /\ map[message.author.id] = message.channel

\* /issue
IssueCommand ==
    \E user \in Users, channel \in Channels \cup {DirectMessages} :
        \E r \in {HandleIssueTextCommand(issueTextWaitMap, user, channel)} :
            /\ issued[user].commands < MaxCommands
            /\ issueTextWaitMap' = r.map
            /\ issued' = IF r.error = NoError
                         THEN [issued EXCEPT ![user].commands = @ + 1] ELSE issued
            /\ lastOp' = [Idle EXCEPT !.op = "issue",
                                      !.args = [user |-> user, channel |-> channel],
                                      !.error = r.error]
            /\ UNCHANGED <<fsVars, installations, mappings, installationClients,
                           webhookSecret, uninstalled, now, vaultVars, handling>>

\* handleMessage up to its await of processFileUpload.  A message that is
\* not taken as an issue body goes on to the other branches of the handler,
\* which do not touch the map of the users waited for
MessageReceived(h, message) ==
    /\ handling[h] = NoMessage
    /\ h = "second" => handling["first"] # NoMessage
    /\ \E taken \in {TakenAsIssueBody(issueTextWaitMap, message)} :
        /\ handling' = IF taken
                       THEN [handling EXCEPT ![h] = [pc |-> "upload",
                                                     author |-> message.author.id,
                                                     channel |-> message.channel]]
                       ELSE handling
        /\ issued' = IF taken THEN [issued EXCEPT ![message.author.id].bodies = @ + 1]
                     ELSE issued
        /\ lastOp' = [Idle EXCEPT !.op = "message",
                                  !.args = [message |-> message, taken |-> taken]]
    /\ UNCHANGED <<fsVars, installations, mappings, installationClients, webhookSecret,
                   uninstalled, now, vaultVars, issueTextWaitMap>>

\* processFileUpload has settled: the reply is sent and, in the finally
\* block, the entry of the author is deleted
MessageProcessed(h, answer, downstream) ==
    /\ handling[h].pc = "upload"
    /\ \E r \in {ProcessFileUploadRun(mappings, installationClients["message"],
                                      GuildOf(handling[h].channel)[1], answer,
                                      downstream, now)} :
        /\ installationClients' = [installationClients EXCEPT !["message"] = r.clients]
        /\ issueTextWaitMap' = Unlink(issueTextWaitMap, handling[h].author)
        /\ handling' = [handling EXCEPT ![h] = NoMessage]
        /\ lastOp' = [Idle EXCEPT !.op = "issueBody",
                                  !.args = [author |-> handling[h].author,
                                            channel |-> handling[h].channel,
                                            served |-> r.served],
                                  !.status = Response(r.error),
                                  !.error = r.error,
                                  !.calls = r.calls]
    /\ UNCHANGED <<fsVars, installations, mappings, webhookSecret, uninstalled, now,
                   vaultVars, issued>>

Init ==
    /\ installations = <<>>
    /\ mappings = <<>>
    /\ installationClients = [s \in Services |-> <<>>]
    /\ webhookSecret \in {"", "whsec"}
    /\ now = 0
    /\ secretFiles = <<>>
    /\ masterKeyEnv = <<>>
    /\ keyFile = NoFile
    /\ lastOp = Idle
    /\ inFlight = [h \in Handlers |-> NoCall]
    /\ torn = {}
    /\ tmpFiles = <<>>
    /\ begun = 0
    /\ issueTextWaitMap = <<>>
    /\ handling = [h \in Handlers |-> NoMessage]
    /\ issued = [u \in Users |-> [commands |-> 0, bodies |-> 0]]
    /\ uninstalled = {}

Webhook == \E req \in Requests : PostGithub(req)

AllGranted == [token |-> "ok", repos |-> <<"ok", {RepoDocs, RepoWeb}>>, info |-> "ok"]

\* a configuration that the platform grants
Enroll ==
    \E g \in Guilds, id \in {<<"1">>, <<"2">>} :
        ConfigureGuild(g, "Acme", RepoDocs, id, AllGranted)

Configure ==
    \E g \in Guilds, n \in GuildNames, c \in ConfigureCalls :
        ConfigureGuild(g, n, c.repo, c.installationId, c.ans)

\* a configuration that the platform grants, with or without a name
Reconfigure ==
    \E g \in {1, 2}, n \in {"Acme", ""}, id \in {<<"1">>, <<"2">>} :
        ConfigureGuild(g, n, RepoWeb, id, AllGranted)

\* a request to the setup route for one of two tenants
Setup ==
    \E body \in CreateMappingRequests :
        /\ body.guild_id \in {1, 2}
        /\ PostGuild(body)

\* an installation.deleted delivery that passes the signature check
Uninstall ==
    \E i \in InstIds :
        \E raw \in {RawBody([action |-> "deleted",
                             installation |-> <<PayloadInstallation(i, 1)>>,
                             repositories |-> <<>>], "compact")} :
            /\ webhookSecret # ""
            /\ PostGithub([event |-> "installation", raw |-> raw,
                           signature |-> Header(SignatureOver(webhookSecret, raw))])

\* an installation.deleted delivery that passes the signature check, with a
\* note of the tenants whose mappings it removed
UninstallNoted ==
    \E i \in InstIds :
        \E raw \in {RawBody([action |-> "deleted",
                             installation |-> <<PayloadInstallation(i, 1)>>,
                             repositories |-> <<>>], "compact")} :
            /\ webhookSecret # ""
            /\ Delivered([event |-> "installation", raw |-> raw,
                          signature |-> Header(SignatureOver(webhookSecret, raw))])
            /\ uninstalled' = uninstalled \cup (DOMAIN mappings \ DOMAIN mappings')

\* an installation.suspend or installation.unsuspend delivery that passes the
\* signature check
Suspension ==
    \E i \in InstIds, action \in {"suspend", "unsuspend"} :
        \E raw \in {RawBody([action |-> action,
                             installation |-> <<PayloadInstallation(i, 1)>>,
                             repositories |-> <<>>], "compact")} :
            /\ webhookSecret # ""
            /\ PostGithub([event |-> "installation", raw |-> raw,
                           signature |-> Header(SignatureOver(webhookSecret, raw))])

\* an upload, with every answer of the platform that the upload reads
Upload ==
    \E s \in UploadServices, g \in Guilds, a \in IssuerAnswers, d \in DownstreamAnswers :
        /\ g \notin DOMAIN mappings => (a = "ok" /\ d = "ok")
        /\ (g \in DOMAIN mappings /\ mappings[g].installation_id
                \in DOMAIN installationClients[s]) => a = "ok"
        /\ a # "ok" => d = "ok"
        /\ ProcessFileUpload(s, g, a, d)

\* each guild configured for the installation of its own organization
EnrollOwn ==
    \E g \in Guilds :
        ConfigureGuild(g, "Acme", RepoDocs, IF g = 1 THEN <<"1">> ELSE <<"2">>, AllGranted)

\* the wall clock
Tick ==
    /\ now < MaxClock
    /\ now' = now + 1
    /\ UNCHANGED <<fsVars, installations, mappings, installationClients, processVars,
                   vaultVars, lastOp>>

\* the first tick of the clock
FirstTick == now = 0 /\ Tick

\* /config openai_key, and the other operations of the vault, for the guilds
\* of a set
PutSecret(tenants) ==
    \E g \in tenants, k \in SecretNames, p \in Plaintexts, iv \in Nonces,
       fresh \in GeneratedKeys :
        \E r \in {SecretPut(secretFiles, masterKeyEnv, keyFile, g, k, p, iv, fresh, now)} :
            Vaulted("put", g, k, p, r)

GetSecret(tenants) ==
    \E g \in tenants, k \in SecretNames, fresh \in GeneratedKeys :
        \E r \in {SecretGet(secretFiles, masterKeyEnv, keyFile, g, k, fresh)} :
            Vaulted("get", g, k, <<>>, r)

HasSecret(tenants) ==
    \E g \in tenants, k \in SecretNames :
        \E r \in {SecretHas(secretFiles, g, k)} :
            Vaulted("has", g, k, <<>>,
                    [files |-> secretFiles, keyFile |-> keyFile, error |-> NoError,
                     result |-> <<r>>, calls |-> <<>>])

RemoveSecret(tenants) ==
    \E g \in tenants, k \in SecretNames :
        \E r \in {SecretRemove(secretFiles, g, k, now)} :
            Vaulted("remove", g, k, <<>>,
                    [files |-> r.files, keyFile |-> keyFile, error |-> r.error,
                     result |-> <<>>, calls |-> r.calls])

\* how readFileSync and writeFileSync on data/master_key end
KeyFileIo == [read : {"ok", "EACCES"}, write : {"ok", "EACCES"}]

\* what randomBytes gives for a key on different calls
RandomKeys == GeneratedKeys \cup {[i \in 1..HexKeyLen |-> "f"]}

\* getOrCreateMasterKeyFile, try: a readFileSync that throws leaves raw unset,
\* whatever the error code, and the method goes on as for a missing file
KeyFileRead(file, io) == IF io.read = "ok" THEN file ELSE NoFile

\* getOrCreateMasterKeyFile, generate: try { writeFileSync } catch {} - the
\* key file is what it was when nothing was generated or the write threw
KeyFileWritten(file, resolved, io) ==
    IF resolved.keyFile = KeyFileRead(file, io) \/ io.write # "ok" THEN file
    ELSE resolved.keyFile

\* an operation of the vault with the master key it resolved (<<>> when it
\* resolved none) and the key file as it stood before
Keyed(op, guildId, key, plain, r, resolved, io) ==
    /\ secretFiles' = r.files
    /\ keyFile' = IF resolved = <<>> THEN keyFile
                  ELSE KeyFileWritten(keyFile, resolved[1], io)
    /\ lastOp' = [op |-> op,
                  args |-> [guildId |-> guildId, key |-> key, plain |-> plain,
                            result |-> r.result,
                            masterKey |-> IF resolved = <<>> THEN <<>>
                                          ELSE <<resolved[1].key>>,
                            persisted |-> keyFile],
                  sig |-> "", status |-> 0, error |-> r.error,
                  affected |-> 0, calls |-> r.calls, redelivered |-> -1]
    /\ UNCHANGED <<fsVars, installations, mappings, installationClients, processVars,
                   now, masterKeyEnv>>

\* put and get when reading or writing the key file can fail
PutUnderIo(tenants) ==
    \E g \in tenants, k \in SecretNames, iv \in Nonces, fresh \in RandomKeys,
       io \in KeyFileIo :
        \E r \in {SecretPut(secretFiles, masterKeyEnv, KeyFileRead(keyFile, io), g, k,
                            <<"s", "k">>, iv, fresh, now)} :
            Keyed("put", g, k, <<"s", "k">>, r,
                  <<GetMasterKey(masterKeyEnv, KeyFileRead(keyFile, io), fresh)>>, io)

GetUnderIo(tenants) ==
    \E g \in tenants, k \in SecretNames, fresh \in RandomKeys, io \in KeyFileIo :
        \E r \in {SecretGet(secretFiles, masterKeyEnv, KeyFileRead(keyFile, io), g, k,
                            fresh)} :
            Keyed("get", g, k, <<>>, r,
                  IF SecretHas(secretFiles, g, k)
                  THEN <<GetMasterKey(masterKeyEnv, KeyFileRead(keyFile, io), fresh)>>
                  ELSE <<>>, io)

\* the process is started again with the same environment
Reboot ==
    /\ lastOp.op # "restart"
    /\ installationClients' = [s \in Services |-> <<>>]
    /\ lastOp' = [op |-> "restart", args |-> <<>>, sig |-> "", status |-> 0,
                  error |-> NoError, affected |-> 0, calls |-> <<>>, redelivered |-> -1]
    /\ UNCHANGED <<fsVars, installations, mappings, processVars, now, vaultVars>>

(***************************************************************************)
(* /config openai_key and /config status: the replies                      *)
(***************************************************************************)
MaxSecretLen == 5

\* '****-****-****-'
Placeholder == <<"*", "*", "*", "*", "-", "*", "*", "*", "*", "-",
                 "*", "*", "*", "*", "-">>

\* String.prototype.slice(-n)
SliceLast(str, n) == SubSeq(str, IF Len(str) > n THEN Len(str) - n + 1 ELSE 1, Len(str))

\* maskKey
MaskKey(k) == IF k = <<>> THEN <<>> ELSE Placeholder \o SliceLast(k, 4)

\* the keys a user can pass to /config openai_key
RECURSIVE StringsOver(_, _)
StringsOver(chars, n) ==
    IF n = 0 THEN {<<>>}
    ELSE StringsOver(chars, n - 1)
         \cup {Append(str, c) : str \in StringsOver(chars, n - 1), c \in chars}

OpenaiKeys == StringsOver({"s", "k"}, MaxSecretLen) \ {<<>>}

\* the reply of a /config subcommand, beside what the vault did
Replied(op, guildId, secret, r, reply) ==
    /\ secretFiles' = r.files
    /\ keyFile' = r.keyFile
    /\ lastOp' = [op |-> op,
                  args |-> [guildId |-> guildId, secret |-> secret, reply |-> reply],
                  sig |-> "", status |-> 0, error |-> r.error,
                  affected |-> 0, calls |-> r.calls, redelivered |-> -1]
    /\ UNCHANGED <<fsVars, installations, mappings, installationClients, processVars,
                   now, masterKeyEnv>>

\* /config openai_key key:<key>: put, then reply with the masked key
OpenaiKeyCommand ==
    \E key \in OpenaiKeys, iv \in Nonces, fresh \in GeneratedKeys :
        \E r \in {SecretPut(secretFiles, masterKeyEnv, keyFile, 1, "openai_api_key", key,
                            iv, fresh, now)} :
            Replied("openai_key", 1, key, r, MaskKey(key))

\* /config status: has, get, and the masked key in the reply
StatusCommand ==
    \E fresh \in GeneratedKeys :
        \E r \in {SecretGet(secretFiles, masterKeyEnv, keyFile, 1, "openai_api_key",
                            fresh)} :
            /\ SecretHas(secretFiles, 1, "openai_api_key")
            /\ Replied("status", 1, IF r.result = <<>> THEN <<>> ELSE r.result[1], r,
                       MaskKey(IF r.result = <<>> THEN <<>> ELSE r.result[1]))

\* one bit of a block: flipped, and flipped back
FlipBit(block) == IF "flipped" \in DOMAIN block THEN block.flipped ELSE [flipped |-> block]

Event(name) == [Idle EXCEPT !.op = name]

\* the stored blob of one secret is altered in one bit, outside the program
Tamper ==
    \E g \in DOMAIN secretFiles :
        \E k \in DOMAIN secretFiles[g].secrets :
            \E at \in 1..Len(Base64Decode(secretFiles[g].secrets[k].enc)) :
                /\ \A h \in DOMAIN secretFiles : \A n \in DOMAIN secretFiles[h].secrets :
                      \A i \in 1..Len(Base64Decode(secretFiles[h].secrets[n].enc)) :
                          "flipped" \notin
                              DOMAIN Base64Decode(secretFiles[h].secrets[n].enc)[i]
                /\ secretFiles' =
                      [secretFiles EXCEPT ![g].secrets[k].enc =
                          Base64Encode([Base64Decode(@) EXCEPT ![at] = FlipBit(@)])]
                /\ lastOp' = Event("tamper")
                /\ UNCHANGED <<fsVars, installations, mappings, installationClients,
                               processVars, now, masterKeyEnv, keyFile>>

\* the process is started again with another CONFIG_MASTER_KEY
Restart ==
    \E env \in MasterKeyEnvs \ {masterKeyEnv} :
        /\ masterKeyEnv' = env
        /\ installationClients' = [s \in Services |-> <<>>]
        /\ lastOp' = Event("restart")
        /\ UNCHANGED <<fsVars, installations, mappings, processVars, now, secretFiles, keyFile>>

(***************************************************************************)
(* The MappingStore called directly, one call after the other              *)
(***************************************************************************)
\* the installation records and tenant mappings that callers save
StoredInstallations ==
    {[installation_id |-> i, app_id |-> AppId,
      account |-> [login |-> Login, id |-> 7, type |-> "Organization"],
      repositories |-> RepositoryList(PayloadRepositories(s)),
      permissions |-> "read", created_at |-> 0, updated_at |-> s,
      suspended_at |-> <<>>] : i \in InstIds, s \in {1, 2}}

StoredMappings ==
    {[guild_id |-> g, guild_name |-> "Acme", installation_id |-> i,
      default_repo |-> [owner |-> SplitOwner(RepoDocs), name |-> SplitName(RepoDocs)],
      channels |-> c, created_at |-> 0, updated_at |-> 0] :
        g \in Guilds, i \in InstIds,
        c \in {<<>>, <<<<[channel_id |-> 9, channel_name |-> "general"]>>>>}}

StoreCalled(op, key, record, result) ==
    /\ lastOp' = [Idle EXCEPT !.op = op,
                              !.args = [key |-> key, record |-> record, result |-> result]]
    /\ UNCHANGED <<fsVars, installationClients, processVars, now, vaultVars>>

SaveInstallationCall ==
    \E rec \in StoredInstallations :
        /\ installations' = SaveInstallation(installations, rec)
        /\ mappings' = mappings
        /\ StoreCalled("saveInstallation", rec.installation_id, <<rec>>, <<>>)

DeleteInstallationCall ==
    \E i \in InstIds :
        /\ installations' = DeleteInstallation(installations, i)
        /\ mappings' = mappings
        /\ StoreCalled("deleteInstallation", i, <<>>, <<>>)

GetInstallationCall ==
    \E i \in InstIds :
        /\ UNCHANGED <<installations, mappings>>
        /\ StoreCalled("getInstallation", i, <<>>, GetInstallation(installations, i))

SaveGuildMappingCall ==
    \E rec \in StoredMappings :
        /\ mappings' = SaveGuildMapping(mappings, rec)
        /\ installations' = installations
        /\ StoreCalled("saveGuildMapping", rec.guild_id, <<rec>>, <<>>)

DeleteGuildMappingCall ==
    \E g \in Guilds :
        /\ mappings' = DeleteGuildMapping(mappings, g)
        /\ installations' = installations
        /\ StoreCalled("deleteGuildMapping", g, <<>>, <<>>)

GetGuildMappingCall ==
    \E g \in Guilds :
        /\ UNCHANGED <<installations, mappings>>
        /\ StoreCalled("getGuildMapping", g, <<>>, GetGuildMapping(mappings, g))

FindGuildsByInstallationCall ==
    \E i \in InstIds :
        /\ UNCHANGED <<installations, mappings>>
        /\ StoreCalled("findGuildsByInstallation", i, <<>>,
                       FindMappingsByInstallation(mappings, i))

(***************************************************************************)
(* A cascade that stops, and the redelivery of its event                   *)
(***************************************************************************)
\* a signed installation.deleted delivery whose handler stops on the way
\* (the process dies, or an await rejects): the stores stay as it left them
UninstallStopped ==
    \E i \in InstIds :
    \E point \in 0..(Len(FindMappingsByInstallation(mappings, i)) + 1) :
        \E r \in {HandleInstallationDeletedUpTo(
                      Stores(installations, mappings, installationClients["webhook"]),
                      i, point)} :
            /\ webhookSecret # ""
            /\ installations' = r.installations
            /\ mappings' = r.mappings
            /\ installationClients' = [installationClients EXCEPT !["webhook"] = r.clients]
            /\ lastOp' = [Idle EXCEPT !.op = "stopped",
                                      !.args = [installation |-> i, point |-> point],
                                      !.affected = r.affected]
            /\ UNCHANGED <<fsVars, processVars, now, vaultVars>>

\* the platform delivers the event of the stopped cascade again, and the
\* route handles it to its end
Redeliver ==
    /\ lastOp.op = "stopped"
    /\ \E i \in InstIds :
       \E raw \in {RawBody([action |-> "deleted",
                            installation |-> <<PayloadInstallation(i, 1)>>,
                            repositories |-> <<>>], "compact")} :
       \E r \in {GithubRoute(
                     Stores(installations, mappings, installationClients["webhook"]),
                     [event |-> "installation", raw |-> raw,
                      signature |-> Header(SignatureOver(webhookSecret, raw))],
                     webhookSecret)} :
            /\ i = lastOp.args.installation
            /\ installations' = r.installations
            /\ mappings' = r.mappings
            /\ installationClients' = [installationClients EXCEPT !["webhook"] = r.clients]
            /\ lastOp' = [Idle EXCEPT !.op = "redelivery",
                                      !.args = lastOp.args,
                                      !.status = Response(r.error),
                                      !.error = r.error,
                                      !.affected = r.affected]
            /\ UNCHANGED <<fsVars, processVars, now, vaultVars>>

\* the reconciler, over stores that granted configurations fill
Next == Webhook \/ Enroll

Spec == Init /\ [][Next]_vars

\* configure_tenant with every input and answer, and uninstalls
NextConfig == Configure \/ Uninstall

SpecConfig == Init /\ [][NextConfig]_vars

\* credentials over time: granted configurations, uploads and the clock
NextToken == EnrollOwn \/ Upload \/ Tick

InitDeployed == Init /\ webhookSecret = "whsec"

SpecToken == InitDeployed /\ [][NextToken]_vars

\* the vault, with the clock
NextVault ==
    \/ PutSecret(Tenants) \/ GetSecret(Tenants) \/ HasSecret(Tenants)
    \/ RemoveSecret(Tenants) \/ Tick

SpecVault == InitDeployed /\ [][NextVault]_vars

\* the vault under calls made one after the other, the clock standing still
NextVaultCalls ==
    \/ PutSecret(Tenants) \/ GetSecret(Tenants) \/ HasSecret(Tenants)
    \/ RemoveSecret(Tenants)

SpecVaultCalls == InitDeployed /\ [][NextVaultCalls]_vars

\* the secrets of one guild under corruption of its file and restarts with
\* another key
NextTamper ==
    \/ PutSecret({1}) \/ GetSecret({1}) \/ HasSecret({1}) \/ RemoveSecret({1})
    \/ Tamper \/ Restart

SpecTamper == InitDeployed /\ [][NextTamper]_vars

\* the vault with no CONFIG_MASTER_KEY, across restarts
NextKey == PutUnderIo(Tenants) \/ GetUnderIo(Tenants) \/ Reboot

SpecKey == InitDeployed /\ [][NextKey]_vars

\* the vault under every configuration of the master key
NextEnv == PutUnderIo({1}) \/ GetUnderIo({1}) \/ Restart

SpecEnv == InitDeployed /\ [][NextEnv]_vars

\* the /config subcommands that show the key
NextMask == OpenaiKeyCommand \/ StatusCommand

SpecMask == InitDeployed /\ [][NextMask]_vars

\* cascades that stop and are delivered again, over configured stores
NextRetry == Enroll \/ UninstallStopped \/ Redeliver

SpecRetry == InitDeployed /\ [][NextRetry]_vars

\* the MappingStore under calls made one after the other
NextStore ==
    \/ SaveInstallationCall \/ DeleteInstallationCall \/ GetInstallationCall
    \/ SaveGuildMappingCall \/ DeleteGuildMappingCall \/ GetGuildMappingCall
    \/ FindGuildsByInstallationCall

SpecStore == InitDeployed /\ [][NextStore]_vars

\* the stores as installation.created for installation 1 and a
\* configuration of guild 2 leave them
InitEnrolled ==
    /\ installations =
         HandleInstallationCreated(Stores(<<>>, <<>>, <<>>), 1,
             [installation |-> <<PayloadInstallation(1, 1)>>,
              repositories |-> PayloadRepositories(1)]).installations
    /\ mappings = UpsertGuildMapping(<<>>, 2, "Acme", <<"1">>, RepoDocs, 0)
    /\ installationClients = [s \in Services |-> <<>>]
    /\ webhookSecret = "whsec"
    /\ now = 0
    /\ secretFiles = <<>>
    /\ masterKeyEnv = <<>>
    /\ keyFile = NoFile
    /\ lastOp = Idle
    /\ inFlight = [h \in Handlers |-> NoCall]
    /\ torn = {}
    /\ tmpFiles = <<>>
    /\ begun = 0
    /\ issueTextWaitMap = <<>>
    /\ handling = [h \in Handlers |-> NoMessage]
    /\ issued = [u \in Users |-> [commands |-> 0, bodies |-> 0]]
    /\ uninstalled = {}

CreateBegins == \E h \in Handlers, g \in Tenants, i \in InstIds : CreateCall(h, g, i)

UpdateBegins == \E h \in Handlers, g \in Tenants, i \in InstIds : UpdateCall(h, g, i)

InstalledBegins == \E h \in Handlers, i \in InstIds : InstalledCall(h, i)

UninstallBegins == \E h \in Handlers, i \in InstIds : UninstallCall(h, i)

Scans == \E h \in Handlers : Scanned(h)

CascadeUnlinks == \E h \in Handlers : CascadeUnlinked(h)

PutBegins == \E h \in Handlers, g \in Tenants, k \in SecretNames : PutCall(h, g, k, <<"s", "k">>)

RemoveBegins == \E h \in Handlers, g \in Tenants, k \in SecretNames : RemoveCall(h, g, k)

ConfigureBegins ==
    \E h \in Handlers, g \in Tenants, id \in {<<"1">>, <<"2">>} :
        ConfigureCall(h, g, "Acme", RepoDocs, id)

DeleteBegins == \E h \in Handlers, g \in Tenants : DeleteCall(h, g)

FileOpens == \E h \in Handlers : Opened(h)

FileWrites == \E h \in Handlers : Written(h)

FileRenames == \E h \in Handlers : Renamed(h)

\* calls of the stores interleaved at their awaits, and crashes
NextFiles ==
    \/ PutBegins \/ RemoveBegins \/ ConfigureBegins \/ DeleteBegins
    \/ FileOpens \/ FileWrites \/ FileRenames \/ Crash

SpecFiles == InitDeployed /\ [][NextFiles]_vars

\* configurations, setup requests and installation events interleaved at
\* their awaits
NextOverlap ==
    \/ ConfigureBegins \/ CreateBegins \/ UpdateBegins \/ DeleteBegins
    \/ InstalledBegins \/ UninstallBegins \/ Scans \/ CascadeUnlinks
    \/ FileOpens \/ FileWrites

SpecOverlap == InitEnrolled /\ [][NextOverlap]_vars

\* configuration, uploads and suspensions
NextSuspend == EnrollOwn \/ Upload \/ Suspension

SpecSuspend == InitDeployed /\ [][NextSuspend]_vars

\* configuration, uninstalls and uploads
NextUninstall == Enroll \/ UninstallNoted \/ Upload

SpecUninstall == InitDeployed /\ [][NextUninstall]_vars

\* the setup route, configure_tenant and one tick of the clock
NextSetup == Setup \/ Reconfigure \/ FirstTick

SpecSetup == InitDeployed /\ [][NextSetup]_vars

\* /issue, the messages of a guild and its configuration
MessageArrives == \E h \in Handlers, message \in ChatMessages : MessageReceived(h, message)

MessageEnds ==
    \E h \in Handlers, a \in IssuerAnswers, d \in DownstreamAnswers :
        /\ 1 \notin DOMAIN mappings => (a = "ok" /\ d = "ok")
        /\ (1 \in DOMAIN mappings /\ mappings[1].installation_id
                \in DOMAIN installationClients["message"]) => a = "ok"
        /\ a # "ok" => d = "ok"
        /\ MessageProcessed(h, a, d)

NextChat == EnrollOwn \/ IssueCommand \/ MessageArrives \/ MessageEnds

SpecChat == InitDeployed /\ [][NextChat]_vars

(***************************************************************************)
(* Properties of the installation credentials                              *)
(***************************************************************************)
\* C5  The client cache never serves a stale credential: an upload is never
\* handed a cached client whose credential is older than the validity window
\* at the time of the upload.
NeverServedStale ==
    (lastOp.op = "upload" /\ lastOp.args.served = "cache") =>
        lastOp.args.at <= lastOp.args.createdAt + TokenValidity

\* lastOp obtained a credential for an installation: a configuration that was
\* given a token, or an upload that was given a client
Credentialed(op) ==
    \/ op.op = "configure" /\ op.calls # <<>> /\ op.args.ans.token = "ok"
    \/ op.op = "upload" /\ op.args.served # "none"

CredentialFor(op) ==
    IF op.op = "configure" THEN ParseInt(op.args.installationId)
    ELSE op.args.installationId

ExchangesOf(op) ==
    {k \in DOMAIN op.calls : op.calls[k] \in {"access_tokens", "getInstallation"}}

\* C6  Cache hit on every path: when a credential for installation I is asked
\* for right after one was issued for I on the same path (configure_tenant, or
\* uploads through one service) and within its validity, the request, a step
\* that leaves the clock alone, makes no exchange with the hosting platform.
CacheHitOnEveryPath ==
    [][(/\ now' = now
        /\ Credentialed(lastOp) /\ Credentialed(lastOp')
        /\ lastOp'.op = lastOp.op
        /\ lastOp.op = "upload" => lastOp'.args.service = lastOp.args.service
        /\ CredentialFor(lastOp') = CredentialFor(lastOp)
        /\ lastOp'.args.at <= lastOp.args.at + TokenValidity)
            => ExchangesOf(lastOp') = {}]_vars

(***************************************************************************)
(* Properties of the vault                                                 *)
(***************************************************************************)
\* C7  Secret round trip: a get of (T, S) that follows a put of (T, S, P),
\* nothing but the clock having moved in between, raises no error and
\* returns exactly P.
SecretRoundTrip ==
    [][(/\ lastOp.op = "put" /\ lastOp'.op = "get"
        /\ lastOp'.args.guildId = lastOp.args.guildId
        /\ lastOp'.args.key = lastOp.args.key)
            => (lastOp'.error = NoError /\ lastOp'.args.result = <<lastOp.args.plain>>)]_vars

\* a get has returned the two-byte character, from a record written after
\* the first tick into a file that holds a second secret
ReadBackBesideAnother ==
    /\ lastOp.op = "get"
    /\ lastOp.args.result = <<<<"e_acute">>>>
    /\ DOMAIN secretFiles[lastOp.args.guildId].secrets = SecretNames
    /\ secretFiles[lastOp.args.guildId].secrets[lastOp.args.key].updatedAt > 0

\* the blob of a record holds a flipped bit
Altered(rec) ==
    \E i \in 1..Len(Base64Decode(rec.enc)) : "flipped" \in DOMAIN Base64Decode(rec.enc)[i]

\* the key that the tag of an unaltered record was computed with
SealedWith(rec) == Base64Decode(rec.enc)[Len(Base64Decode(rec.enc))].tag[1]

\* the master key that the configuration gives now
KeyInUse == (CHOOSE fresh \in GeneratedKeys : TRUE)

\* the record that lastOp read is altered, or sealed with another key than
\* the one in use
ReadUnverifiable ==
    /\ lastOp.op = "get"
    /\ lastOp.args.guildId \in DOMAIN secretFiles
    /\ lastOp.args.key \in DOMAIN secretFiles[lastOp.args.guildId].secrets
    /\ LET rec == secretFiles[lastOp.args.guildId].secrets[lastOp.args.key]
       IN  \/ Altered(rec)
           \/ SealedWith(rec) # GetMasterKey(masterKeyEnv, keyFile, KeyInUse).key

\* C8  Tamper detection: a get of a record whose blob is altered in a bit, or
\* that was sealed with another master key than the one in use, fails with
\* IntegrityError and returns no plaintext.
TamperIsIntegrityError ==
    ReadUnverifiable => (lastOp.error = "IntegrityError" /\ lastOp.args.result = <<>>)

\* C9  Idempotent removal: a remove of (T, S) when T holds no secret named S,
\* or has no file, raises no error, writes no file and leaves every file of
\* the vault, its secrets and its timestamps as they were.
RemoveAbsentIsNoOp ==
    [][(lastOp'.op = "remove" /\ now' = now
        /\ ~SecretHas(secretFiles, lastOp'.args.guildId, lastOp'.args.key))
            => (/\ UNCHANGED vaultVars
                /\ lastOp'.error = NoError
                /\ lastOp'.calls = <<>>)]_vars

\* a secret that is not there has been removed from a file that holds
\* another one, written before the last tick
RemovedAbsentBesideAnother ==
    /\ lastOp.op = "remove"
    /\ lastOp.calls = <<>>
    /\ lastOp.args.guildId \in DOMAIN secretFiles
    /\ DOMAIN secretFiles[lastOp.args.guildId].secrets # {}
    /\ secretFiles[lastOp.args.guildId].updatedAt < now

(***************************************************************************)
(* Properties of the reconciler                                            *)
(***************************************************************************)
StoresUnchanged == UNCHANGED <<installations, mappings, installationClients>>

\* lastOp is an installation.deleted delivery that reached its handler
DeletedHandled ==
    /\ lastOp.op = "webhook"
    /\ lastOp.args.event = "installation"
    /\ lastOp.args.payload.action = "deleted"
    /\ lastOp.args.payload.installation # <<>>

\* C1  Cascade completeness: once installation.deleted for I has been handled,
\* whatever the number of mappings that referenced I, the handler has raised
\* no error, no installation record for I exists and no stored mapping
\* references I; this holds in every state, so also after the handler has run
\* a second time for the same I.
CascadeComplete ==
    DeletedHandled =>
        /\ lastOp.error = NoError
        /\ lastOp.status = 200
        /\ InstOf(lastOp.args.payload) \notin DOMAIN installations
        /\ \A g \in DOMAIN mappings :
              mappings[g].installation_id # InstOf(lastOp.args.payload)

\* the handler has just run a second time for I, after a first run that
\* removed one mapping for every guild
CascadeTwice ==
    /\ DeletedHandled
    /\ lastOp.redelivered = NumGuilds
    /\ lastOp.affected = 0

\* C2  Signature enforcement: a request whose signature header is absent or
\* is not the recomputed one is turned away before anything is dispatched:
\* no installation record, mapping or cached client changes, and the answer
\* is not 200.
SignatureEnforced ==
    [][(lastOp'.op = "webhook" /\ lastOp'.sig # "match") =>
            /\ StoresUnchanged
            /\ lastOp'.args = NoDelivery
            /\ lastOp'.status # 200]_vars

\* a request with a wrong signature has been turned away while records were stored
RejectedOverRecords ==
    /\ lastOp.op = "webhook"
    /\ lastOp.sig = "mismatch"
    /\ DOMAIN installations # {}
    /\ DOMAIN mappings # {}

\* C3  A request whose signature header is absent or differs from the expected
\* value in any way, a different length included, fails with UnauthorizedError
\* and is answered 401.
SignatureFailureIs401 ==
    (lastOp.op = "webhook" /\ lastOp.sig # "match") =>
        (lastOp.error = "UnauthorizedError" /\ lastOp.status = 401)

\* the reconciler has no case for this event, or for this action of the event
Unknown(delivery) ==
    \/ delivery.event \notin {"installation", "installation_repositories", "ping"}
    \/ /\ delivery.event = "installation"
       /\ delivery.payload.action \notin {"created", "deleted", "suspend", "unsuspend"}
    \/ /\ delivery.event = "installation_repositories"
       /\ delivery.payload.action \notin {"added", "removed"}

LacksInstallation(delivery) ==
    /\ delivery.event \in {"installation", "installation_repositories"}
    /\ delivery.payload.installation = <<>>

\* C4 as stated: a correctly signed delivery with an unknown event type or
\* action changes nothing and is answered 200.
UnknownIgnoredNoError ==
    [][(lastOp'.op = "webhook" /\ lastOp'.sig = "match" /\ Unknown(lastOp'.args)) =>
            (StoresUnchanged /\ lastOp'.error = NoError /\ lastOp'.status = 200)]_vars

\* C4  amended: a correctly signed delivery with an unknown event type or
\* action changes no record, mapping or cached client; it is answered 200,
\* except that an installation or installation_repositories delivery whose
\* payload lacks the installation object is answered 500.
UnknownIgnored ==
    [][(lastOp'.op = "webhook" /\ lastOp'.sig = "match" /\ Unknown(lastOp'.args)) =>
            /\ StoresUnchanged
            /\ IF LacksInstallation(lastOp'.args)
               THEN lastOp'.error = "Error" /\ lastOp'.status = 500
               ELSE lastOp'.error = NoError /\ lastOp'.status = 200]_vars

\* an unknown action of a known event has been answered 200 while records
\* of its installation were stored
UnknownActionSeen ==
    /\ lastOp.op = "webhook"
    /\ lastOp.sig = "match"
    /\ Unknown(lastOp.args)
    /\ lastOp.status = 200
    /\ lastOp.args.event = "installation"
    /\ InstOf(lastOp.args.payload) \in DOMAIN installations
    /\ \E g \in DOMAIN mappings :
          mappings[g].installation_id = InstOf(lastOp.args.payload)

(***************************************************************************)
(* Properties of configure_tenant                                          *)
(***************************************************************************)
\* C10  configure_tenant writes only after token issuance and access
\* validation have succeeded: a step of it that changes a mapping or an
\* installation record was given a token by the platform and found the exact
\* repository in the platform's listing, and a step that fails (input
\* validation, token issuance, access validation, installation lookup)
\* leaves every mapping and installation record as it was.
ConfigureWritesAfterValidation ==
    [][lastOp'.op = "configure" =>
            /\ lastOp'.error # NoError => UNCHANGED <<installations, mappings>>
            /\ ~(UNCHANGED <<installations, mappings>>) =>
                  /\ ValidateRepoFormat(lastOp'.args.repo)
                  /\ ValidateInstallationId(lastOp'.args.installationId)
                  /\ lastOp'.args.ans.token = "ok"
                  /\ lastOp'.args.ans.repos[1] = "ok"
                  /\ lastOp'.args.repo \in lastOp'.args.ans.repos[2]
                  /\ lastOp'.args.ans.info = "ok"]_vars

\* access validation has just failed for a guild that is already mapped,
\* after a token was issued
AccessRefusedForMappedGuild ==
    /\ lastOp.op = "configure"
    /\ lastOp.error = "ValidationError"
    /\ lastOp.calls = <<"access_tokens", "repositories">>
    /\ lastOp.args.guildId \in DOMAIN mappings
    /\ mappings[lastOp.args.guildId].default_repo #
          [owner |-> SplitOwner(lastOp.args.repo), name |-> SplitName(lastOp.args.repo)]

\* C11  configure_tenant validates before any network call: a configuration
\* whose repository string is not owner/name over letters, digits, '-', '.'
\* and '_', or whose installation id is not a string of digits, raises
\* ValidationError and makes no request to the hosting platform.
ValidationBeforeNetwork ==
    (/\ lastOp.op = "configure"
     /\ \/ ~ValidateRepoFormat(lastOp.args.repo)
        \/ ~ValidateInstallationId(lastOp.args.installationId))
        => (lastOp.error = "ValidationError" /\ lastOp.status = 400 /\ lastOp.calls = <<>>)

\* a well-formed repository with an installation id that is not numeric has
\* been turned away for a guild that is mapped
MalformedIdTurnedAway ==
    /\ lastOp.op = "configure"
    /\ ValidateRepoFormat(lastOp.args.repo)
    /\ lastOp.args.installationId = <<"1", "x">>
    /\ lastOp.error = "ValidationError"
    /\ lastOp.args.guildId \in DOMAIN mappings

\* the full name of a mapping's default repository
FullName(mapping) == mapping.default_repo.owner \o <<"/">> \o mapping.default_repo.name

\* C12  After a successful configure_tenant(T, name, 'owner/repo', I),
\* get_mapping(T) returns a record whose default repository is owner/repo and
\* whose installation id is I, and an installation record for I exists.
ConfiguredIsReadBack ==
    (lastOp.op = "configure" /\ lastOp.error = NoError)
        => LET found == GetGuildMapping(mappings, lastOp.args.guildId)
               id == ParseInt(lastOp.args.installationId)
           IN  /\ found # <<>>
               /\ FullName(found[1]) = lastOp.args.repo
               /\ found[1].installation_id = id
               /\ GetInstallation(installations, id) # <<>>
               /\ GetInstallation(installations, id)[1].installation_id = id

\* guild 1 has been configured for a/w under installation 2 while guild 2
\* stays on a/d under installation 1
ConfiguredBesideAnother ==
    /\ lastOp.op = "configure" /\ lastOp.error = NoError
    /\ lastOp.args.guildId = 1
    /\ lastOp.args.repo = RepoWeb /\ lastOp.args.installationId = <<"2">>
    /\ 2 \in DOMAIN mappings
    /\ FullName(mappings[2]) = RepoDocs /\ mappings[2].installation_id = 1

\* C13  Token exchange errors: when the platform answers the exchange for an
\* installation with a 404-class response the issuer fails with NotFoundError
\* after that one request, and on any other failure of the exchange it fails
\* with ExternalServiceError.  The first conjunct is the exchange of
\* ConfigService.getInstallationToken, the second that of
\* GitHubService.getInstallationClient.
TokenExchangeErrors ==
    /\ (lastOp.op = "configure" /\ lastOp.calls = <<"access_tokens">>)
            => lastOp.error = IF lastOp.args.ans.token = "404"
                              THEN "NotFoundError" ELSE "ExternalServiceError"
    /\ (lastOp.op = "upload" /\ lastOp.calls = <<"getInstallation", "logOperation">>)
            => lastOp.error \in {"NotFoundError", "ExternalServiceError"}

\* the configuration got as far as listing the repositories under the token
AccessChecked ==
    /\ lastOp.op = "configure"
    /\ Len(lastOp.calls) >= 2
    /\ lastOp.calls[2] = "repositories"

\* C14  validateRepoAccess succeeds iff the exact full name owner/repo is among
\* the repositories listed under the token: when the listing succeeds and the
\* name is absent it fails with ValidationError, and it fails with
\* ExternalServiceError only when the listing request itself fails.
AccessErrorDistinction ==
    AccessChecked =>
        LET listing == lastOp.args.ans.repos
            passed == Len(lastOp.calls) = 3
        IN  /\ passed <=> (listing[1] = "ok" /\ lastOp.args.repo \in listing[2])
            /\ ~passed =>
                    lastOp.error = IF listing[1] = "ok" THEN "ValidationError"
                                   ELSE "ExternalServiceError"

\* a/d has been refused with ValidationError under a token that lists w/d only
SameNameOtherOwnerRefused ==
    /\ AccessChecked
    /\ lastOp.args.repo = RepoDocs
    /\ lastOp.args.ans.repos = <<"ok", {RepoFork}>>
    /\ lastOp.error = "ValidationError"

\* what handling a delivery once, and once more, leaves from the present state
HandledOnce(d) ==
    HandleWebhookEvent(Stores(installations, mappings, installationClients["webhook"]),
                       d.event, d.payload)

HandledTwice(d) ==
    LET once == HandledOnce(d)
    IN  HandleWebhookEvent(Stores(once.installations, once.mappings, once.clients),
                           d.event, d.payload)

SameRecords(a, b) == a.installations = b.installations /\ a.mappings = b.mappings

\* C15 as stated: for every delivery and every starting state, handling the
\* delivery twice in succession leaves the installation records and the
\* mappings as handling it once does, and the second handling raises no error.
RedeliveryIdempotentNoError ==
    \A d \in Deliveries :
        /\ SameRecords(HandledTwice(d), HandledOnce(d))
        /\ HandledTwice(d).error = NoError

\* C15  Every reconciliation handler is idempotent under redelivery: for every
\* delivery and every starting state, handling it twice in succession leaves
\* the installation records and the mappings as handling it once does, and
\* the second handling raises an error only where the first did: for an
\* installation or installation_repositories delivery whose payload has no
\* installation object, which changes nothing either time.
RedeliveryIdempotent ==
    \A d \in Deliveries :
        /\ SameRecords(HandledTwice(d), HandledOnce(d))
        /\ HandledTwice(d).error = HandledOnce(d).error
        /\ HandledTwice(d).error # NoError <=>
                (/\ d.event \in {"installation", "installation_repositories"}
                 /\ d.payload.installation = <<>>)
        /\ HandledTwice(d).error # NoError =>
                /\ HandledOnce(d).installations = installations
                /\ HandledOnce(d).mappings = mappings

\* installation.created has just been handled a second time in succession,
\* with its repository list, for an installation that a guild is mapped to
CreatedRedelivered ==
    /\ lastOp.op = "webhook" /\ lastOp.error = NoError
    /\ lastOp.redelivered = 0
    /\ lastOp.args.event = "installation"
    /\ lastOp.args.payload.action = "created"
    /\ lastOp.args.payload.repositories # <<>>
    /\ InstOf(lastOp.args.payload) \in DOMAIN installations
    /\ \E g \in DOMAIN mappings : mappings[g].installation_id = InstOf(lastOp.args.payload)

(***************************************************************************)
(* Properties of the stores between awaits                                 *)
(***************************************************************************)
\* C16 as stated: every write of the MappingStore is atomic: whoever reads a
\* mapping or installation file, while a save is in flight or after a crash,
\* finds the file absent or holding a complete record, never a partial one.
MappingWritesAtomic ==
    /\ \A g \in Tenants : Observed(MappingPath(g)) # <<"torn">>
    /\ \A i \in InstIds : Observed(InstallationPath(i)) # <<"torn">>

\* the secrets that a reader can take from what it finds at a secrets file,
\* each with what decrypt returns for it
Held(found) ==
    IF found[1] # "whole" THEN <<>>
    ELSE [k \in DOMAIN found[2].secrets |->
            Decrypt(found[2].secrets[k],
                    GetMasterKey(masterKeyEnv, keyFile, KeyInUse).key)]

\* a put or remove that no other call on the same file has overlapped, begun
\* on a file that could be read
Single(call) ==
    /\ call.op \in {"put", "remove"}
    /\ call.alone
    /\ call.before # <<"torn">>

\* what a call leaves at its file when it has run to its end
Outcome(call) ==
    IF call.op = "delete" THEN <<"absent">>
    ELSE IF call.data = <<>> THEN call.before ELSE <<"whole", call.data[1]>>

\* C17  SecretVault put and remove write by atomic replace: at every point of
\* a single put or remove, so also after a crash at that point, the secrets
\* file of the guild holds the complete previous record set or the complete
\* new one, and every secret that could be read before and is not the one
\* put or removed can still be read, with the same plaintext.
SecretWritesAtomic ==
    \A h \in Handlers :
        Single(inFlight[h]) =>
            LET call == inFlight[h]
                found == Observed(call.file)
            IN  /\ found \in {call.before, Outcome(call)}
                /\ \A k \in DOMAIN Held(call.before) \ {call.key} :
                      /\ k \in DOMAIN Held(found)
                      /\ Held(found)[k] = Held(call.before)[k]

\* the process has died in a put between the opening of the temporary file
\* and the writing of it, and the secret stored under the other name before
\* is read back
CrashedMidPut ==
    \E h \in Handlers :
        /\ inFlight[h].pc = "crashed"
        /\ Single(inFlight[h])
        /\ inFlight[h].op = "put"
        /\ TmpPath(inFlight[h].guildId) \in torn
        /\ \E k \in DOMAIN Held(Observed(inFlight[h].file)) \ {inFlight[h].key} :
              /\ Held(Observed(inFlight[h].file))[k].error = NoError
              /\ Held(Observed(inFlight[h].file))[k].plain = <<"s", "k">>

\* C18  The read-modify-write race on the record of one tenant: a put that
\* reports success can leave its secret, or one that was stored when it
\* began, absent from the file only when another call on the same file
\* overlapped it; two overlapping puts of different names can both report
\* success while the file holds one of the names only (LostUpdate).
UpdateLostOnlyInOverlap ==
    \A h \in Handlers :
        LET call == inFlight[h]
            found == Observed(call.file)
        IN  (/\ call.pc = "done" /\ call.op = "put" /\ call.error = NoError
             /\ call.alone /\ call.before # <<"torn">>)
                => /\ call.key \in DOMAIN Held(found)
                   /\ DOMAIN Held(call.before) \subseteq DOMAIN Held(found)

\* two puts of different names for one guild have both reported success, and
\* the file holds only one of the names
LostUpdate ==
    LET a == inFlight["first"]
        b == inFlight["second"]
    IN  /\ a.pc = "done" /\ b.pc = "done"
        /\ a.op = "put" /\ b.op = "put"
        /\ a.error = NoError /\ b.error = NoError
        /\ a.guildId = b.guildId /\ a.key # b.key
        /\ Observed(a.file)[1] = "whole"
        /\ ~({a.key, b.key} \subseteq DOMAIN Held(Observed(a.file)))

\* the files that belong to a guild, as a reader finds them
FilesOf(g) == <<Observed(MappingPath(g)), Observed(SecretsPath(g)), Observed(TmpPath(g))>>

\* a call that has run to its end with no other call on its file
RanAlone(call) == call.pc = "done" /\ call.alone /\ call.before # <<"torn">>

\* C19  Per-key independence: a call that ran with calls on other guilds
\* only, however interleaved, leaves at its file what it leaves when run by
\* itself and reports no error; and the files of a guild change only in the
\* steps of calls on that guild.
TenantsIndependent ==
    /\ [](\A h \in Handlers :
            RanAlone(inFlight[h]) =>
                /\ inFlight[h].error = NoError
                /\ Observed(inFlight[h].file) = Outcome(inFlight[h]))
    /\ [][\A g \in Tenants :
            FilesOf(g)' # FilesOf(g) =>
                \E h \in Handlers : /\ inFlight'[h] # inFlight[h]
                                    /\ inFlight'[h].guildId = g]_vars

\* a configuration of one guild and a put for the other have run to their
\* ends, the second begun while the first was in flight
InterleavedAcrossTenants ==
    LET a == inFlight["first"]
        b == inFlight["second"]
    IN  /\ RanAlone(a) /\ RanAlone(b)
        /\ a.guildId # b.guildId
        /\ {a.op, b.op} = {"configure", "put"}
        /\ begun = 2

(***************************************************************************)
(* Properties of the master key                                            *)
(***************************************************************************)
\* a key file that holds a key
HoldsKey(file) == file # NoFile /\ Trim(file[1]) # <<>>

\* C20  Master-key persistence: with no key or passphrase configured, a key
\* is generated only when the key file holds none and is in the key file
\* from then on; every resolution returns the key in the key file, so every
\* stored secret is sealed with that key and a get of it does not fail.
MasterKeyPersists ==
    /\ \A g \in DOMAIN secretFiles : \A k \in DOMAIN secretFiles[g].secrets :
          /\ HoldsKey(keyFile)
          /\ SealedWith(secretFiles[g].secrets[k]) = KeyFrom(Trim(keyFile[1]))
    /\ (lastOp.op \in {"put", "get"} /\ lastOp.args.masterKey # <<>>) =>
          /\ HoldsKey(lastOp.args.persisted) =>
                lastOp.args.masterKey[1] = KeyFrom(Trim(lastOp.args.persisted[1]))
          /\ HoldsKey(keyFile)
          /\ lastOp.args.masterKey[1] = KeyFrom(Trim(keyFile[1]))
          /\ lastOp.error = NoError

\* the vault has just resolved a master key for a put or a get
KeyResolved == lastOp.op \in {"put", "get"} /\ lastOp.args.masterKey # <<>>

\* C21 as stated: a configured 64-hex-character key is used directly,
\* otherwise a configured non-empty passphrase is put through the derivation
\* with the fixed salt, and in both cases the key file is left alone.
ResolutionOrderNonEmpty ==
    (KeyResolved /\ masterKeyEnv # <<>>) =>
        /\ lastOp.args.masterKey[1] = IF IsHexKey(masterKeyEnv) THEN FromHex(masterKeyEnv)
                                       ELSE Scrypt(masterKeyEnv)
        /\ keyFile = lastOp.args.persisted

\* C21  Master-key resolution order: a configured 64-hex-character key is
\* used directly; otherwise a configured passphrase that is not blank is put
\* through the derivation with the fixed salt; in both cases the resolved
\* key is that function of the configuration whatever the key file holds,
\* and the key file is not written.  Only with nothing configured, or only
\* whitespace, does the key come from the key file or get generated.
ResolutionOrder ==
    KeyResolved =>
        IF Trim(masterKeyEnv) # <<>>
        THEN /\ lastOp.args.masterKey[1] =
                    IF IsHexKey(masterKeyEnv) THEN FromHex(masterKeyEnv)
                    ELSE Scrypt(masterKeyEnv)
             /\ keyFile = lastOp.args.persisted
        ELSE \/ /\ HoldsKey(lastOp.args.persisted)
                /\ lastOp.args.masterKey[1] = KeyFrom(Trim(lastOp.args.persisted[1]))
             \/ \E fresh \in RandomKeys : lastOp.args.masterKey[1] = FromHex(fresh)

\* a passphrase is configured while the key file holds a key generated
\* earlier, and a put has resolved the key derived from the passphrase
PassphraseOverKeyFile ==
    /\ KeyResolved /\ lastOp.op = "put"
    /\ masterKeyEnv = <<"p", "w">>
    /\ HoldsKey(keyFile)
    /\ lastOp.args.masterKey[1] = Scrypt(<<"p", "w">>)

(***************************************************************************)
(* Properties of the replies                                               *)
(***************************************************************************)
\* str occurs in text as a run of consecutive characters
Contains(text, str) ==
    \E i \in 0..(Len(text) - Len(str)) : SubSeq(text, i + 1, i + Len(str)) = str

\* C22  Masking: for every secret string s shown by /config, the reply holds
\* the fixed placeholder followed by the last four characters of s only, and
\* never contains s in full, also when s has four characters or fewer.
MaskHidesSecret ==
    (lastOp.op \in {"openai_key", "status"} /\ lastOp.args.secret # <<>>) =>
        /\ lastOp.args.reply = Placeholder \o SliceLast(lastOp.args.secret, 4)
        /\ ~Contains(lastOp.args.reply, lastOp.args.secret)

\* the abstract map that a store implements: key |-> record, or <<>> (null)
InstallationMap == [i \in InstIds |-> GetInstallation(installations, i)]
MappingMap == [g \in Guilds |-> GetGuildMapping(mappings, g)]

\* C23: the MappingStore is a key-to-record map.  No key has a record at the
\* start; a save under a key makes that key's record the saved one, a delete
\* makes it null, and both leave every other key of the two stores as it
\* was; a get returns the record of its key and changes nothing.  Hence a
\* get returns the record saved last under its key and not deleted since,
\* and null for a key never saved or deleted after its last save.
StoreRefinesMap ==
    /\ \A i \in InstIds : InstallationMap[i] = <<>>
    /\ \A g \in Guilds : MappingMap[g] = <<>>
    /\ [][LET o == lastOp'
               k == o.args.key
           IN  /\ o.op = "saveInstallation" =>
                    /\ InstallationMap' = [InstallationMap EXCEPT ![k] = o.args.record]
                    /\ MappingMap' = MappingMap
               /\ o.op = "deleteInstallation" =>
                    /\ InstallationMap' = [InstallationMap EXCEPT ![k] = <<>>]
                    /\ MappingMap' = MappingMap
               /\ o.op = "getInstallation" =>
                    /\ o.args.result = InstallationMap[k]
                    /\ InstallationMap' = InstallationMap /\ MappingMap' = MappingMap
               /\ o.op = "saveGuildMapping" =>
                    /\ MappingMap' = [MappingMap EXCEPT ![k] = o.args.record]
                    /\ InstallationMap' = InstallationMap
               /\ o.op = "deleteGuildMapping" =>
                    /\ MappingMap' = [MappingMap EXCEPT ![k] = <<>>]
                    /\ InstallationMap' = InstallationMap
               /\ o.op = "getGuildMapping" =>
                    /\ o.args.result = MappingMap[k]
                    /\ InstallationMap' = InstallationMap /\ MappingMap' = MappingMap
        ]_vars

\* a get reads back a saved mapping whose optional channels were left out,
\* while the other tenant has none (never saved, or deleted since)
SavedReadBackBesideNull ==
    /\ lastOp.op = "getGuildMapping"
    /\ lastOp.args.result # <<>>
    /\ lastOp.args.result[1].channels = <<>>
    /\ \E g \in Guilds : MappingMap[g] = <<>>
    /\ \E i \in InstIds : InstallationMap[i] # <<>>

\* the stored mappings that reference an installation
Referencing(installationId) ==
    {mappings[g] : g \in {h \in DOMAIN mappings :
                              mappings[h].installation_id = installationId}}

\* C24: find_mappings_by_installation(I) returns exactly the stored tenant
\* mappings whose installation_id is I: every one of them, each once, none
\* with another installation_id, and the empty list when no stored mapping
\* references I (in particular when no mapping was ever stored).
FindReturnsExactly ==
    lastOp.op = "findGuildsByInstallation" =>
        LET found == lastOp.args.result
        IN  /\ {found[n] : n \in DOMAIN found} = Referencing(lastOp.args.key)
            /\ Len(found) = Cardinality(Referencing(lastOp.args.key))
            /\ Referencing(lastOp.args.key) = {} => found = <<>>
            /\ mappings = <<>> => found = <<>>

\* a search that finds a mapping while a mapping of another installation is
\* stored beside it
FoundBesideAnother ==
    /\ lastOp.op = "findGuildsByInstallation"
    /\ lastOp.args.result # <<>>
    /\ \E g \in DOMAIN mappings : mappings[g].installation_id # lastOp.args.key

(***************************************************************************)
(* Properties of the webhook endpoint                                      *)
(***************************************************************************)
\* the request passed the signature check and was dispatched to its handler
Accepted == lastOp.error \notin {"UnauthorizedError", "RangeError"}

\* C25: a webhook request is accepted iff its signature header is 'sha256='
\* followed by the hex HMAC-SHA256 of the raw body under the shared secret;
\* a request signed over its raw body is accepted whatever the layout of its
\* JSON, and with no shared secret configured every request is rejected.
AcceptedIffSignedOverRaw ==
    lastOp.op = "webhook" =>
        /\ Accepted <=> lastOp.overRaw
        /\ webhookSecret = "" => ~Accepted

\* C26: the webhook endpoint answers 200 iff the signature passed the
\* endpoint's verification and the event handler completed without error;
\* when the handler fails the status is the one of the error thrown: 400,
\* 404, 401 or 502 for the errors of the taxonomy, 500 for any other, such
\* as an installation event whose payload lacks the installation object.
WebhookResponseCodes ==
    lastOp.op = "webhook" =>
        /\ lastOp.status = 200 <=> (lastOp.sig = "match" /\ lastOp.error = NoError)
        /\ (lastOp.sig = "match" /\ lastOp.error # NoError) =>
              lastOp.status = CASE lastOp.error = "ValidationError"      -> 400
                                [] lastOp.error = "NotFoundError"        -> 404
                                [] lastOp.error = "UnauthorizedError"    -> 401
                                [] lastOp.error = "ExternalServiceError" -> 502
                                [] OTHER                                 -> 500
        /\ (lastOp.sig = "match" /\ LacksInstallation(lastOp.args)) =>
              (lastOp.error = "Error" /\ lastOp.status = 500)

\* a correctly signed installation.deleted without the installation object
\* has been answered 500 while a record was stored
HandlerFailedOverRecords ==
    /\ lastOp.op = "webhook"
    /\ lastOp.sig = "match"
    /\ lastOp.args.event = "installation"
    /\ lastOp.args.payload.action = "deleted"
    /\ lastOp.error = "Error"
    /\ lastOp.status = 500
    /\ DOMAIN installations # {}

(***************************************************************************)
(* The vault as a map                                                      *)
(***************************************************************************)
\* the abstract map that the vault implements over its files: what get
\* returns for each (tenant, name), <<>> when absent
SecretMapOf(files, env, file) ==
    [g \in Tenants |->
        [k \in SecretNames |-> SecretGet(files, env, file, g, k, KeyInUse).result]]

SecretMap == SecretMapOf(secretFiles, masterKeyEnv, keyFile)

\* C27: the SecretStore is a map (tenant, name) -> plaintext under put and
\* remove called one after the other.  Nothing is held at the start; a put
\* of (T, S, P) makes get(T, S) return P and a remove of (T, S) makes it
\* absent, and both leave every other name of T and every other tenant as
\* they were; get returns the entry of the map without error, has is true
\* exactly when that entry is not absent, and neither changes the map.
VaultRefinesMap ==
    /\ \A g \in Tenants, k \in SecretNames : SecretMap[g][k] = <<>>
    /\ [][\E before \in {SecretMap}, after \in {SecretMapOf(secretFiles', masterKeyEnv', keyFile')} :
            LET o == lastOp'
                g == o.args.guildId
                k == o.args.key
            IN  /\ o.op = "put" => after = [before EXCEPT ![g][k] = <<o.args.plain>>]
                /\ o.op = "remove" => after = [before EXCEPT ![g][k] = <<>>]
                /\ o.op = "get" =>
                     /\ o.error = NoError
                     /\ o.args.result = before[g][k]
                     /\ after = before
                /\ o.op = "has" =>
                     /\ o.args.result = <<before[g][k] # <<>>>>
                     /\ after = before
        ]_vars

\* a remove has taken one secret out of a file that keeps another, while
\* the other tenant holds a secret as well
RemovedBesideOthers ==
    /\ lastOp.op = "remove"
    /\ lastOp.calls # <<>>
    /\ SecretMap[lastOp.args.guildId][lastOp.args.key] = <<>>
    /\ \E k \in SecretNames : SecretMap[lastOp.args.guildId][k] # <<>>
    /\ \E g \in Tenants \ {lastOp.args.guildId}, k \in SecretNames : SecretMap[g][k] # <<>>

(***************************************************************************)
(* Properties of the cascade under failure and overlap                     *)
(***************************************************************************)
\* C28: the cascade is crash-retryable.  When the installation.deleted
\* handler for I has stopped at any point (after evicting the cache entry,
\* after deleting the installation record, after deleting some of the
\* referencing mappings) and the event is delivered again and handled to
\* its end, the redelivery raises no error, no installation record for I
\* and no mapping referencing I remains, and the records of other
\* installations and the mappings that reference them are as they were:
\* deleting what is already absent is a no-op.
CrashRetryable ==
    /\ [](lastOp.op = "redelivery" =>
            /\ lastOp.error = NoError
            /\ lastOp.status = 200
            /\ lastOp.args.installation \notin DOMAIN installations
            /\ Referencing(lastOp.args.installation) = {}
            /\ lastOp.args.installation \notin DOMAIN installationClients["webhook"])
    /\ [][(lastOp.op = "stopped" /\ lastOp'.op = "redelivery") =>
            /\ \A i \in InstIds \ {lastOp.args.installation} :
                  GetInstallation(installations', i) = GetInstallation(installations, i)
            /\ \A g \in DOMAIN mappings :
                  mappings[g].installation_id # lastOp.args.installation =>
                      GetGuildMapping(mappings', g) = <<mappings[g]>>
            /\ DOMAIN mappings' \subseteq DOMAIN mappings
       ]_vars

\* a cascade stopped after the record and the first of two mappings were
\* deleted; the redelivery removed the mapping that was left, beside the
\* record of another installation
RedeliveredAfterPartialCascade ==
    /\ lastOp.op = "redelivery"
    /\ lastOp.args.point = 2
    /\ lastOp.affected = 1
    /\ DOMAIN installations # {}

\* C29: referential integrity of mappings.  In every state where no
\* operation is in flight, every stored tenant mapping references an
\* installation for which an installation record is stored, whatever the
\* interleaving of configurations, setup requests (create, update, delete)
\* and installation.created and installation.deleted deliveries.
ReferentialIntegrity ==
    (\A h \in Handlers : AtRest(inFlight[h])) =>
        \A g \in DOMAIN mappings :
            MappingPath(g) \notin torn =>
                mappings[g].installation_id \in DOMAIN installations

(***************************************************************************)
(* Properties of the installation snapshot                                 *)
(***************************************************************************)
\* lastOp is a correctly signed installation.created or
\* installation_repositories.added/removed delivery that names an installation
Upserting(o) ==
    /\ o.op = "webhook"
    /\ o.sig = "match"
    /\ \/ o.args.event = "installation" /\ o.args.payload.action = "created"
       \/ /\ o.args.event = "installation_repositories"
          /\ o.args.payload.action \in {"added", "removed"}
    /\ o.args.payload.installation # <<>>

\* C30: installation.created and installation_repositories.added/removed
\* upsert the installation record.  After the handler has completed,
\* get_installation(id) returns a record whose account, permissions and
\* repository list are those of the payload (none when the payload lists
\* none), whatever record was stored for the id before; no tenant mapping
\* and no record of another installation is changed.
SnapshotUpserted ==
    [][Upserting(lastOp') =>
          LET payload == lastOp'.args.payload
              inst == payload.installation[1]
              got == GetInstallation(installations', inst.id)
          IN  /\ lastOp'.error = NoError
              /\ got # <<>>
              /\ got[1].installation_id = inst.id
              /\ got[1].account = inst.account
              /\ got[1].permissions = inst.permissions
              /\ got[1].repositories = RepositoryList(payload.repositories)
              /\ mappings' = mappings
              /\ \A i \in InstIds \ {inst.id} :
                    GetInstallation(installations', i) = GetInstallation(installations, i)
      ]_vars

\* an installation_repositories.added delivery with a repository list has
\* been stored, beside the record of another installation and a mapping
SnapshotStoredBesideOthers ==
    /\ Upserting(lastOp)
    /\ lastOp.args.event = "installation_repositories"
    /\ lastOp.args.payload.repositories # <<>>
    /\ installations[InstOf(lastOp.args.payload)].repositories # <<>>
    /\ installations[InstOf(lastOp.args.payload)].updated_at = 2
    /\ \E i \in DOMAIN installations : i # InstOf(lastOp.args.payload)
    /\ DOMAIN mappings # {}


\* lastOp is an installation.suspend or installation.unsuspend delivery that
\* passed the signature check
Suspending(o) ==
    /\ o.op = "webhook"
    /\ o.sig = "match"
    /\ o.args.event = "installation"
    /\ o.args.payload.action \in {"suspend", "unsuspend"}
    /\ o.args.payload.installation # <<>>

\* C31: installation.suspend and installation.unsuspend are observed only:
\* handling them answers 200 and leaves every installation record (with its
\* suspended_at), every tenant mapping and every client-cache entry as it
\* was, so the upload that follows for a tenant of the suspended installation
\* is served the cached client when its service holds one and is issued a
\* new client, which is cached, when the platform answers the test call.
SuspensionObservedOnly ==
    [][/\ Suspending(lastOp') =>
            /\ StoresUnchanged
            /\ lastOp'.error = NoError
            /\ lastOp'.status = 200
       /\ (/\ Suspending(lastOp)
           /\ lastOp'.op = "upload"
           /\ lastOp'.args.installationId = lastOp.args.payload.installation[1].id) =>
            LET id == lastOp'.args.installationId
                service == lastOp'.args.service
            IN  /\ id \in DOMAIN installationClients[service] =>
                      /\ lastOp'.args.served = "cache"
                      /\ lastOp'.args.createdAt =
                             installationClients[service][id].createdAt
                      /\ lastOp'.error \notin {"NotFoundError", "UnauthorizedError"}
                /\ id \notin DOMAIN installationClients[service] =>
                      \/ /\ lastOp'.args.served = "issued"
                         /\ id \in DOMAIN installationClients'[service]
                      \/ /\ lastOp'.args.served = "none"
                         /\ lastOp'.error \in {"NotFoundError", "UnauthorizedError"}
                         /\ id \notin DOMAIN installationClients'[service]]_vars

\* a suspension was handled while the installation was recorded, a tenant was
\* mapped to it and a handler held a client for it
SuspendedWhileCached ==
    /\ Suspending(lastOp)
    /\ lastOp.args.payload.action = "suspend"
    /\ \E id \in {lastOp.args.payload.installation[1].id} :
          /\ id \in DOMAIN installations
          /\ \E g \in DOMAIN mappings : mappings[g].installation_id = id
          /\ id \in DOMAIN installationClients["message"]

EvictedOnEveryService ==
    (DeletedHandled /\ lastOp.sig = "match" /\ lastOp.error = NoError) =>
        \A service \in Services :
            lastOp.args.payload.installation[1].id
                \notin DOMAIN installationClients[service]


\* lastOp is an upload whose client could not be created or verified
VerificationFailed(o) ==
    /\ o.op = "upload"
    /\ o.args.installationId # 0
    /\ o.args.served = "none"

\* C34: the client map of a GitHubService gains an entry for I only in a
\* request on that instance whose verification call for I succeeded, and
\* holds none for I once installation.deleted for I was handled on it; a
\* creation or verification that fails (404 or any other error) leaves every
\* map as it was, and the next request for I on that instance makes the
\* verification call again.
CachedOnlyWhenVerified ==
    [][/\ \A service \in Services :
            \A id \in DOMAIN installationClients'[service] :
                id \notin DOMAIN installationClients[service] =>
                    /\ lastOp'.op = "upload"
                    /\ lastOp'.args.service = service
                    /\ lastOp'.args.installationId = id
                    /\ lastOp'.args.served = "issued"
                    /\ lastOp'.calls[1] = "getInstallation"
                    /\ lastOp'.error \notin {"NotFoundError", "UnauthorizedError"}
       /\ (DeletedHandled' /\ lastOp'.sig = "match") =>
            lastOp'.args.payload.installation[1].id
                \notin DOMAIN installationClients'["webhook"]
       /\ VerificationFailed(lastOp') =>
            /\ lastOp'.error \in {"NotFoundError", "UnauthorizedError"}
            /\ lastOp'.calls = <<"getInstallation", "logOperation">>
            /\ installationClients' = installationClients
            /\ lastOp'.args.installationId
                  \notin DOMAIN installationClients'[lastOp'.args.service]
       /\ (/\ VerificationFailed(lastOp)
           /\ lastOp'.op = "upload"
           /\ lastOp'.args.service = lastOp.args.service
           /\ lastOp'.args.installationId = lastOp.args.installationId) =>
            lastOp'.calls[1] = "getInstallation"]_vars

\* a verification failed on one handler while the other handler holds a
\* client for the same installation
FailedBesideCached ==
    /\ VerificationFailed(lastOp)
    /\ \E service \in UploadServices \ {lastOp.args.service} :
          lastOp.args.installationId \in DOMAIN installationClients[service]


\* C35: when two calls of put or remove on the secrets of one tenant overlap,
\* each of them ends without an error and the secrets file is left as the
\* complete content that one of them wrote.
OverlappingWritesComplete ==
    LET a == inFlight["first"]
        b == inFlight["second"]
    IN  (/\ a.pc = "done" /\ b.pc = "done"
         /\ {a.op, b.op} \subseteq {"put", "remove"}
         /\ a.guildId = b.guildId
         /\ ~a.alone /\ ~b.alone
         /\ a.data # <<>> /\ b.data # <<>>) =>
            /\ a.error = NoError
            /\ b.error = NoError
            /\ Observed(a.file) \in {Outcome(a), Outcome(b)}


\* C36: configure_tenant on a tenant that is already mapped changes only
\* installation_id, the default repository, the tenant name (when a name
\* that is not empty is given) and updated_at of its mapping: created_at and
\* the per-channel repository overrides stay as they were, and so does every
\* other mapping.
ReconfigureKeepsRest ==
    [][\A g \in DOMAIN mappings :
         (lastOp' # lastOp /\ lastOp'.op = "configure" /\ lastOp'.args.guildId = g
            /\ lastOp'.error = NoError) =>
            /\ mappings' =
                  [mappings EXCEPT
                     ![g].installation_id = ParseInt(lastOp'.args.installationId),
                     ![g].default_repo =
                         [owner |-> SplitOwner(lastOp'.args.repo),
                          name |-> SplitName(lastOp'.args.repo)],
                     ![g].guild_name =
                         IF lastOp'.args.guildName # "" THEN lastOp'.args.guildName
                         ELSE @,
                     ![g].updated_at = now]
            /\ mappings'[g].created_at = mappings[g].created_at
            /\ mappings'[g].channels = mappings[g].channels]_vars

\* a tenant created with a channel override has been configured again at a
\* later tick, for another installation and without a name
ReconfiguredWithOverrides ==
    /\ lastOp.op = "configure"
    /\ lastOp.error = NoError
    /\ lastOp.args.guildName = ""
    /\ \E g \in {lastOp.args.guildId} :
          /\ g \in DOMAIN mappings
          /\ mappings[g].channels = <<<<ChannelOverride>>>>
          /\ mappings[g].guild_name = "Old"
          /\ mappings[g].created_at < mappings[g].updated_at
          /\ mappings[g].installation_id = 2
          /\ mappings[g].default_repo.name = SplitName(RepoWeb)


\* C38: POST /api/setup/guild stores a mapping for a tenant only when the
\* installation is recorded and the tenant has no mapping, and fails
\* otherwise, also when two requests for the same tenant overlap: of two
\* requests for one tenant that have both been answered, at most one has
\* stored its mapping and been answered 201.
CreatedAtMostOnce ==
    LET a == inFlight["first"]
        b == inFlight["second"]
    IN  (/\ a.op = "create" /\ b.op = "create"
         /\ a.guildId = b.guildId
         /\ a.pc = "done" /\ b.pc = "done"
         /\ a.error = NoError) =>
            b.error # NoError


\* C37: pending input is one-shot: of the messages of a user, no more are
\* taken as issue bodies than the user has given /issue commands.
OneBodyPerCommand == \A user \in Users : issued[user].bodies <= issued[user].commands


====
